---- MODULE Spec2Model ----
(***************************************************************************)
(* State-machine model of the UCP control plane backend (FastAPI routers   *)
(* over a relational account store and the external Proxmox inventory).    *)
(*                                                                         *)
(* Text values (tag strings, markers) are sequences of one-character       *)
(* strings so that Python's substring test, split, strip and join are      *)
(* computed character by character.                                        *)
(***************************************************************************)
EXTENDS Integers, Sequences, FiniteSets, TLC

VARIABLES users, quotas, inventory, resp, probe, inflight, networks, audit, tunnel, boots

vars == <<users, quotas, inventory, resp, probe, inflight, networks, audit, tunnel, boots>>

(***************************************************************************)
(* Bounds of the model.                                                    *)
(***************************************************************************)
MaxUsers == 2
MaxResources == 2
MaxProbeId == 11
MaxProbeLabels == 2
MaxWorkers == 2
MaxNetworks == 2
MaxAudit == 3
MaxTunnels == 2
MaxTokens == 3

(***************************************************************************)
(* Python text primitives.                                                 *)
(***************************************************************************)
Digit == <<"0", "1", "2", "3", "4", "5", "6", "7", "8", "9">>

RECURSIVE IntToStr(_)
IntToStr(n) ==
    IF n < 10 THEN <<Digit[n + 1]>>
    ELSE IntToStr(n \div 10) \o <<Digit[(n % 10) + 1]>>

\* Python `sub in s` on strings: raw substring containment.
StrIn(sub, s) ==
    \E i \in 0..(Len(s) - Len(sub)) : SubSeq(s, i + 1, i + Len(sub)) = sub

\* Python s.split(d) for a one-character delimiter: the list of pieces,
\* empty pieces included.
RECURSIVE StrSplit(_, _)
StrSplit(s, d) ==
    IF \A i \in 1..Len(s) : s[i] # d THEN <<s>>
    ELSE LET k == CHOOSE i \in 1..Len(s) :
                      s[i] = d /\ \A j \in 1..(i - 1) : s[j] # d
         IN <<SubSeq(s, 1, k - 1)>> \o StrSplit(SubSeq(s, k + 1, Len(s)), d)

\* Python s.strip(): leading and trailing blanks removed.
RECURSIVE StrStrip(_)
StrStrip(s) ==
    IF s = <<>> THEN s
    ELSE IF Head(s) = " " THEN StrStrip(Tail(s))
    ELSE IF s[Len(s)] = " " THEN StrStrip(SubSeq(s, 1, Len(s) - 1))
    ELSE s

\* Python d.join(list).
RECURSIVE StrJoin(_, _)
StrJoin(list, d) ==
    IF list = <<>> THEN <<>>
    ELSE IF Len(list) = 1 THEN list[1]
    ELSE list[1] \o <<d>> \o StrJoin(Tail(list), d)

(***************************************************************************)
(* Ownership registry.                                                     *)
(***************************************************************************)
OWNER_TAG_PREFIX == <<"u", "c", "p", "-", "o", "w", "n", "e", "r", ":">>

\* f"{OWNER_TAG_PREFIX}{user_id}"
OwnerTag(user_id) == OWNER_TAG_PREFIX \o IntToStr(user_id)

\* _is_owner: the marker text is searched in the raw tag string.
is_owner(tags, user_id) == StrIn(OwnerTag(user_id), tags)

\* [t.strip() for t in req.tags.split(",") if t.strip()]
RECURSIVE StripNonEmpty(_)
StripNonEmpty(list) ==
    IF list = <<>> THEN <<>>
    ELSE LET t == StrStrip(Head(list))
         IN (IF t = <<>> THEN <<>> ELSE <<t>>) \o StripNonEmpty(Tail(list))

\* Tag composition of create_instance / create_container: the owner tag
\* first, then the caller's comma-separated tags, joined with ";".
BuildTags(user_id, req_tags) ==
    LET all_tags == <<OwnerTag(user_id)>> \o
                    (IF req_tags = <<>> THEN <<>>
                     ELSE StripNonEmpty(StrSplit(req_tags, ",")))
    IN StrJoin(all_tags, ";")

\* The label set a tag string denotes: its ";"-separated elements.
Labels(tags) ==
    IF tags = <<>> THEN {}
    ELSE {StrSplit(tags, ";")[i] : i \in 1..Len(StrSplit(tags, ";"))}

\* The spec's owns(labels, id): the marker is a discrete element.
HasMarker(tags, user_id) == OwnerTag(user_id) \in Labels(tags)


(***************************************************************************)
(* Relational store: users and quotas tables.  A user's id is its          *)
(* position in `users` (autoincrement primary key, no row is ever          *)
(* deleted); `quotas` holds one row per insert, keyed by user_id.          *)
(***************************************************************************)
Roles == {"admin", "user"}
Statuses == {"pending", "approved", "rejected"}

DEFAULT_MAX_VCPUS == 8
DEFAULT_MAX_RAM_GB == 16
DEFAULT_MAX_DISK_GB == 200

UserIds == 1..Len(users)

\* user.quota: the joined quotas row; no row is Python's None (falsy).
QuotaRows(user_id) == {i \in 1..Len(quotas) : quotas[i].user_id = user_id}

HasQuota(user_id) == QuotaRows(user_id) # {}

QuotaOf(user_id) == quotas[CHOOSE i \in QuotaRows(user_id) : TRUE]

(***************************************************************************)
(* Responses.  `resp` is the outcome of the last request: the handler,     *)
(* the account whose valid session token the request carried (0 when it    *)
(* carried none; for a login, the account logged in), the object the       *)
(* request addressed, the status code returned and the strongest call      *)
(* the handler issued to the external API.                                 *)
(***************************************************************************)
Reply(op, uid, target, code, px) ==
    [op |-> op, uid |-> uid, target |-> target, code |-> code, px |-> px]

NoReply == Reply("none", 0, 0, "none", "none")

(***************************************************************************)
(* Sessions.  A credential is absent, an undecodable or expired token, or  *)
(* the unexpired token issued at login to an account (its "sub" claim,     *)
(* the account id, is all that session resolution reads).                  *)
(***************************************************************************)
Absent == [kind |-> "absent"]
Invalid == [kind |-> "invalid"]
Token(sub) == [kind |-> "token", sub |-> sub]

Creds == {Absent, Invalid} \cup {Token(u) : u \in UserIds}

\* The account a credential names: decode_jwt's "sub" of a valid token.
SubOf(cred) == IF cred.kind = "token" THEN cred.sub ELSE 0

Allow(uid) == [ok |-> TRUE, uid |-> uid, code |-> "200"]
Deny(uid, code) == [ok |-> FALSE, uid |-> uid, code |-> code]

\* get_current_user
get_current_user(cred) ==
    IF cred.kind = "absent" THEN Deny(0, "401")
    ELSE IF cred.kind = "invalid" THEN Deny(0, "401")
    ELSE IF cred.sub \notin UserIds THEN Deny(0, "401")
    ELSE IF users[cred.sub].status = "rejected"
         THEN Deny(cred.sub, "403_rejected")
    ELSE IF users[cred.sub].status = "pending"
         THEN Deny(cred.sub, "403_pending")
    ELSE Allow(cred.sub)

\* get_current_user_any_status
get_current_user_any_status(cred) ==
    IF cred.kind = "absent" THEN Deny(0, "401")
    ELSE IF cred.kind = "invalid" THEN Deny(0, "401")
    ELSE IF cred.sub \notin UserIds THEN Deny(0, "401")
    ELSE Allow(cred.sub)

\* require_admin
require_admin(cred) ==
    LET u == get_current_user(cred)
    IN IF ~u.ok THEN u
       ELSE IF users[u.uid].role # "admin" THEN Deny(u.uid, "403_admin")
       ELSE u

(***************************************************************************)
(* External inventory (Proxmox).  A resource is a QEMU VM or an LXC        *)
(* container on a node.  Byte counts (maxmem, maxdisk) are held in MiB,    *)
(* 2^20 bytes, so that sums stay within machine integers: a division by    *)
(* 1024**2 in the code is then exact and a division by 1024**3 is a        *)
(* division by 1024.                                                       *)
(***************************************************************************)
Nodes == {"pve1", "pve2"}
MiBPerGiB == 1024

Resource(kind, vmid, node, tags, template, cpus, maxmem, maxdisk, status) ==
    [kind |-> kind, vmid |-> vmid, node |-> node, tags |-> tags,
     template |-> template, cpus |-> cpus, maxmem |-> maxmem,
     maxdisk |-> maxdisk, status |-> status]

\* The condition of the external API during one handler call: whether the
\* cluster endpoint answers at all, and which nodes fail their queries.
Upstreams ==
    {[api |-> TRUE, down |-> d] : d \in SUBSET Nodes}
        \cup {[api |-> FALSE, down |-> {}]}

UpOk == [api |-> TRUE, down |-> {}]

UpDown == [api |-> FALSE, down |-> {}]

\* A call to the external API returns a value or raises.
Returned(val) == [ok |-> TRUE, val |-> val]
Raised == [ok |-> FALSE, val |-> {}]

\* (A variant of the listing below that raises when a node fails its
\* query.)
list_vms_strict(up) ==
    IF ~up.api \/ up.down # {} THEN Raised
    ELSE Returned({r \in inventory : r.kind = "qemu"})

\* list_vms(node=None): nodes.get() may raise; a node whose query fails is
\* skipped.
list_vms(up) ==
    IF ~up.api THEN Raised
    ELSE Returned({r \in inventory : r.kind = "qemu" /\ r.node \notin up.down})

\* list_lxc(node=None)
list_lxc(up) ==
    IF ~up.api THEN Raised
    ELSE Returned({r \in inventory : r.kind = "lxc" /\ r.node \notin up.down})

\* get_vm / get_lxc: status and config of one resource; raises when the
\* node does not answer or the resource does not exist there.
Lookup(kind, node, vmid, up) ==
    LET hit == {r \in inventory :
                    r.kind = kind /\ r.node = node /\ r.vmid = vmid}
    IN IF ~up.api \/ node \in up.down \/ hit = {} THEN Raised
       ELSE Returned(CHOOSE r \in hit : TRUE)

get_vm(node, vmid, up) == Lookup("qemu", node, vmid, up)

get_lxc(node, vmid, up) == Lookup("lxc", node, vmid, up)

(***************************************************************************)
(* Claim bootstrapper.                                                     *)
(***************************************************************************)
\* new_tags = f"{existing_tags};{tag}" if existing_tags else tag
AppendTag(existing_tags, tag) ==
    IF existing_tags # <<>> THEN existing_tags \o <<";">> \o tag ELSE tag

\* The resources _claim_existing_resources writes to: every listed
\* non-template VM and every listed container whose tag string does not
\* contain the prefix.  A listing that raises skips that kind.
ClaimTargets(inv, up_vm, up_ct) ==
    LET vms == IF up_vm.api
               THEN {r \in inv : r.kind = "qemu" /\ r.node \notin up_vm.down}
               ELSE {}
        cts == IF up_ct.api
               THEN {r \in inv : r.kind = "lxc" /\ r.node \notin up_ct.down}
               ELSE {}
    IN {r \in vms : r.template = 0 /\ ~StrIn(OWNER_TAG_PREFIX, r.tags)}
           \cup {r \in cts : ~StrIn(OWNER_TAG_PREFIX, r.tags)}

\* (A variant of the scan below that stops at the first write that
\* fails: the targets after it, in the order of their ids, are not
\* written.)
claim_existing_resources_aborting(inv, user_id, up_vm, up_ct, wfail) ==
    LET tag == OwnerTag(user_id)
        claim == ClaimTargets(inv, up_vm, up_ct)
        failed == {r.vmid : r \in {x \in claim : x.vmid \in wfail}}
    IN {IF r \in claim /\ \A f \in failed : r.vmid < f
        THEN [r EXCEPT !.tags = AppendTag(r.tags, tag)]
        ELSE r : r \in inv}

\* _claim_existing_resources: each target gets the owner tag appended; a
\* write that fails (wfail) is logged and skipped.
claim_existing_resources(inv, user_id, up_vm, up_ct, wfail) ==
    LET tag == OwnerTag(user_id)
        claim == ClaimTargets(inv, up_vm, up_ct)
    IN {IF r \in claim /\ r.vmid \notin wfail
        THEN [r EXCEPT !.tags = AppendTag(r.tags, tag)]
        ELSE r : r \in inv}

\* One run of _claim_existing_resources, with the warnings it logged: a
\* node skipped by a listing, a listing that raised, a write that raised.
BootRun(user_id, inv, up_vm, up_ct, wfail) ==
    LET skipped(kind, up) ==
            IF up.api
            THEN {[what |-> "node", kind |-> kind, node |-> n, vmid |-> 0] :
                     n \in up.down}
            ELSE {[what |-> "list", kind |-> kind, node |-> "", vmid |-> 0]}
        unwritten ==
            {[what |-> "claim", kind |-> r.kind, node |-> r.node,
              vmid |-> r.vmid] :
                 r \in {x \in ClaimTargets(inv, up_vm, up_ct) :
                           x.vmid \in wfail}}
    IN [user_id |-> user_id,
        warned |-> skipped("qemu", up_vm) \cup skipped("lxc", up_ct)
                       \cup unwritten]

(***************************************************************************)
(* Login.                                                                  *)
(***************************************************************************)
User(google_id, role, status) ==
    [google_id |-> google_id, role |-> role, status |-> status]

\* (A variant of the row below that is not bound to its account.)
QuotaDetached(user_id, max_vcpus, max_ram_gb, max_disk_gb) ==
    [user_id |-> 0, max_vcpus |-> max_vcpus, max_ram_gb |-> max_ram_gb,
     max_disk_gb |-> max_disk_gb]

Quota(user_id, max_vcpus, max_ram_gb, max_disk_gb) ==
    [user_id |-> user_id, max_vcpus |-> max_vcpus,
     max_ram_gb |-> max_ram_gb, max_disk_gb |-> max_disk_gb]

\* select(User).where(User.google_id == google_id)
UserByGoogleId(google_id) ==
    {u \in UserIds : users[u].google_id = google_id}

\* role and status of a new account: the first row of an empty table is
\* admin and approved, every other one user and pending.
\* (A variant without the first-row case: no account is made admin.)
FirstRoleNeverAdmin(count) == "user"

FirstRole(count) == IF count = 0 THEN "admin" ELSE "user"

\* (A variant without the later-row case: every account starts approved.)
FirstStatusAlwaysApproved(count) == "approved"

FirstStatus(count) == IF count = 0 THEN "approved" ELSE "pending"

\* (A variant of the update below that sends the account back to
\* approval.)
RepeatLoginResetting(user) == [user EXCEPT !.status = "pending"]

\* The row of a known account after a login: last_login, name and picture
\* are set, the other columns are left as they are.
RepeatLogin(user) == user

\* upsert_user
upsert_user(google_id, up_vm, up_ct, wfail) ==
    IF UserByGoogleId(google_id) # {}
    THEN LET id == CHOOSE u \in UserByGoogleId(google_id) : TRUE
         IN /\ users' = [users EXCEPT ![id] = RepeatLogin(users[id])]
            /\ resp' = Reply("google_login", id, 0, "200", "none")
            /\ UNCHANGED <<quotas, inventory, boots>>
    ELSE LET count == Len(users)
             is_first == count = 0
             id == Len(users) + 1
         IN /\ users' = Append(users, User(google_id, FirstRole(count),
                                           FirstStatus(count)))
            /\ quotas' = Append(quotas,
                                Quota(id, DEFAULT_MAX_VCPUS,
                                      DEFAULT_MAX_RAM_GB, DEFAULT_MAX_DISK_GB))
            /\ inventory' =
                   IF is_first
                   THEN claim_existing_resources(inventory, id, up_vm, up_ct,
                                                 wfail)
                   ELSE inventory
            /\ boots' = IF is_first
                        THEN Append(boots,
                                    BootRun(id, inventory, up_vm, up_ct,
                                            wfail))
                        ELSE boots
            /\ resp' = Reply("google_login", id, 0, "200",
                             IF ~is_first THEN "none"
                             ELSE IF ClaimTargets(inventory, up_vm, up_ct) = {}
                             THEN "read" ELSE "write")

\* google_login: POST /auth/google
google_login(verified, google_id, up_vm, up_ct, wfail) ==
    /\ IF ~verified
       THEN /\ resp' = Reply("google_login", 0, 0, "401", "none")
            /\ UNCHANGED <<users, quotas, inventory, boots>>
       ELSE upsert_user(google_id, up_vm, up_ct, wfail)
    /\ UNCHANGED <<probe, inflight, networks, audit, tunnel>>

\* get_me: GET /auth/me
get_me(cred) ==
    LET u == get_current_user(cred)
    IN /\ resp' = Reply("get_me", u.uid, u.uid, u.code, "none")
       /\ UNCHANGED <<users, quotas, inventory, probe, inflight, networks, audit, tunnel, boots>>

\* list_nodes: GET /nodes, a read of the cluster behind get_current_user.
list_nodes(cred, up) ==
    LET u == get_current_user(cred)
    IN /\ resp' = IF ~u.ok THEN Reply("list_nodes", u.uid, 0, u.code, "none")
                  ELSE IF ~up.api
                  THEN Reply("list_nodes", u.uid, 0, "502", "read")
                  ELSE Reply("list_nodes", u.uid, 0, "200", "read")
       /\ UNCHANGED <<users, quotas, inventory, probe, inflight, networks, audit, tunnel, boots>>

\* get_task_log: GET /logs/task/{node}/{upid}.  The route declares no
\* dependency: the credential is not looked at.
get_task_log(cred, node, up) ==
    /\ resp' = IF ~up.api \/ node \in up.down
               THEN Reply("get_task_log", SubOf(cred), 0, "502", "read")
               ELSE Reply("get_task_log", SubOf(cred), 0, "200", "read")
    /\ UNCHANGED <<users, quotas, inventory, probe, inflight, networks, audit, tunnel, boots>>

\* shell_websocket: WS /shell/ws/{node}/{vmid}.  The socket is accepted and
\* the connection to the node's console is opened without any dependency;
\* a failure to connect closes the socket with code 1011.
shell_websocket(cred, node, vmid, up) ==
    /\ resp' = IF ~up.api \/ node \in up.down
               THEN Reply("shell_websocket", SubOf(cred), vmid, "1011", "read")
               ELSE Reply("shell_websocket", SubOf(cred), vmid, "101", "read")
    /\ UNCHANGED <<users, quotas, inventory, probe, inflight, networks, audit, tunnel, boots>>

(***************************************************************************)
(* Administration.                                                         *)
(***************************************************************************)
\* A request body is a record of the fields the caller supplied; a field
\* left out is Python's None.
Given(body, field) == field \in DOMAIN body

\* update_user_quota: PUT /admin/users/{user_id}/quota.  A field of the
\* body that is None leaves the column alone.
update_user_quota(cred, user_id, body) ==
    LET a == require_admin(cred)
        rows == QuotaRows(user_id)
    IN /\ IF ~a.ok
          THEN /\ resp' = Reply("update_user_quota", a.uid, user_id, a.code,
                                "none")
               /\ UNCHANGED quotas
          ELSE IF rows = {}
          THEN /\ resp' = Reply("update_user_quota", a.uid, user_id, "404",
                                "none")
               /\ UNCHANGED quotas
          ELSE LET i == CHOOSE i \in rows : TRUE
                   q == quotas[i]
               IN /\ quotas' = [quotas EXCEPT ![i] =
                        [q EXCEPT
                           !.max_vcpus = IF Given(body, "max_vcpus")
                                         THEN body.max_vcpus ELSE @,
                           !.max_ram_gb = IF Given(body, "max_ram_gb")
                                          THEN body.max_ram_gb ELSE @,
                           !.max_disk_gb = IF Given(body, "max_disk_gb")
                                           THEN body.max_disk_gb ELSE @]]
                  /\ resp' = Reply("update_user_quota", a.uid, user_id, "200",
                                   "none")
       /\ UNCHANGED <<users, inventory, probe, inflight, networks, audit, tunnel, boots>>

\* update_user_role: PUT /admin/users/{user_id}/role
update_user_role(cred, user_id, role) ==
    LET a == require_admin(cred)
    IN /\ IF ~a.ok
          THEN /\ resp' = Reply("update_user_role", a.uid, user_id, a.code,
                                "none")
               /\ UNCHANGED users
          ELSE IF role \notin {"admin", "user"}
          THEN /\ resp' = Reply("update_user_role", a.uid, user_id, "400",
                                "none")
               /\ UNCHANGED users
          ELSE IF user_id \notin UserIds
          THEN /\ resp' = Reply("update_user_role", a.uid, user_id, "404",
                                "none")
               /\ UNCHANGED users
          ELSE /\ users' = [users EXCEPT ![user_id].role = role]
               /\ resp' = Reply("update_user_role", a.uid, user_id, "200",
                                "none")
       /\ UNCHANGED <<quotas, inventory, probe, inflight, networks, audit, tunnel, boots>>

\* The values update_user_status accepts.  (A variant that lets one more
\* value through: StatusAcceptedUnchecked.)
StatusAcceptedUnchecked == {"approved", "rejected", "pending", "banned"}

StatusAccepted == {"approved", "rejected", "pending"}

\* update_user_status: PUT /admin/users/{user_id}/status
update_user_status(cred, user_id, status) ==
    LET a == require_admin(cred)
    IN /\ IF ~a.ok
          THEN /\ resp' = Reply("update_user_status", a.uid, user_id, a.code,
                                "none")
               /\ UNCHANGED users
          ELSE IF status \notin StatusAccepted
          THEN /\ resp' = Reply("update_user_status", a.uid, user_id, "400",
                                "none")
               /\ UNCHANGED users
          ELSE IF user_id \notin UserIds
          THEN /\ resp' = Reply("update_user_status", a.uid, user_id, "404",
                                "none")
               /\ UNCHANGED users
          ELSE /\ users' = [users EXCEPT ![user_id].status = status]
               /\ resp' = Reply("update_user_status", a.uid, user_id, "200",
                                "none")
       /\ UNCHANGED <<quotas, inventory, probe, inflight, networks, audit, tunnel, boots>>

(***************************************************************************)
(* Per-resource handlers.  Each fetches the resource, applies the          *)
(* ownership check of its own module and then calls the cluster.  The      *)
(* cluster's snapshot and backup stores are not part of the state: their   *)
(* handlers are modelled up to the call they issue.                        *)
(***************************************************************************)
\* _is_owner of routers/lxc.py
lxc_is_owner(ct, user_id) == StrIn(OwnerTag(user_id), ct.tags)

\* _is_owner of routers/instances.py, applied to a fetched VM
vm_is_owner(vm, user_id) == is_owner(vm.tags, user_id)

\* _is_owner of dependencies.py
dep_is_owner(resource, user_id) == StrIn(OwnerTag(user_id), resource.tags)

\* The inline test of get_vnc_ticket: f"ucp-owner:{user.id}" not in tags
ticket_is_owner(resource, user_id) == StrIn(OwnerTag(user_id), resource.tags)

Gate(uid, code, px, val) == [uid |-> uid, code |-> code, px |-> px, val |-> val]

\* Session check, fetch, then: user.role != "admin" and not owner -> 403.
OwnerGate(cred, fetched, owner) ==
    LET u == get_current_user(cred)
    IN IF ~u.ok THEN Gate(u.uid, u.code, "none", {})
       ELSE IF ~fetched.ok THEN Gate(u.uid, "502", "read", {})
       ELSE IF users[u.uid].role # "admin" /\ ~owner
       THEN Gate(u.uid, "403_not_owner", "read", {})
       ELSE Gate(u.uid, "200", "read", fetched.val)

\* The gate of the handlers of routers/instances.py
VmGate(cred, node, vmid, up) ==
    LET vm == get_vm(node, vmid, up)
    IN OwnerGate(cred, vm, vm.ok /\ vm_is_owner(vm.val, SubOf(cred)))

\* The gate of the handlers of routers/lxc.py
CtGate(cred, node, vmid, up) ==
    LET ct == get_lxc(node, vmid, up)
    IN OwnerGate(cred, ct, ct.ok /\ lxc_is_owner(ct.val, SubOf(cred)))

\* get_current_user_vm
get_current_user_vm(cred, node, vmid, up) ==
    LET vm == get_vm(node, vmid, up)
    IN OwnerGate(cred, vm, vm.ok /\ dep_is_owner(vm.val, SubOf(cred)))

\* get_current_user_lxc
get_current_user_lxc(cred, node, vmid, up) ==
    LET ct == get_lxc(node, vmid, up)
    IN OwnerGate(cred, ct, ct.ok /\ dep_is_owner(ct.val, SubOf(cred)))

\* The reply of a per-resource handler also names the verdict of its gate.
GateReply(op, g, vmid, code, px) ==
    [op |-> op, uid |-> g.uid, target |-> vmid, code |-> code, px |-> px,
     gate |-> g.code]

\* A handler that, once through its gate, issues one call (px) that
\* changes nothing in the inventory.
PassThrough(op, g, vmid, px) ==
    /\ resp' = GateReply(op, g, vmid, g.code,
                         IF g.code = "200" THEN px ELSE g.px)
    /\ UNCHANGED <<users, quotas, inventory, probe, inflight, networks, audit, tunnel, boots>>

\* A handler that, once through its gate, replaces the resource by `new`
\* (removes it when `new` is empty).
Mutate(op, g, vmid, new) ==
    /\ IF g.code = "200"
       THEN /\ inventory' = (inventory \ {g.val}) \cup new
            /\ resp' = GateReply(op, g, vmid, "200", "write")
       ELSE /\ resp' = GateReply(op, g, vmid, g.code, g.px)
            /\ UNCHANGED inventory
    /\ UNCHANGED <<users, quotas, probe, inflight, networks, audit, tunnel, boots>>

\* A handler whose call the cluster refuses once it is through its gate.
Refused(op, g, vmid, code, px) ==
    /\ resp' = GateReply(op, g, vmid,
                         IF g.code = "200" THEN code ELSE g.code,
                         IF g.code = "200" THEN px ELSE g.px)
    /\ UNCHANGED <<users, quotas, inventory, probe, inflight, networks, audit, tunnel, boots>>

\* get_instance: GET /instances/{node}/{vmid}
get_instance(cred, node, vmid, up) ==
    PassThrough("get_instance", VmGate(cred, node, vmid, up), vmid, "read")

\* vm_action: the status a valid action leaves the VM in.
VmValidActions == {"start", "stop", "shutdown", "reset", "suspend", "resume"}

VmStatusAfter(action) ==
    IF action \in {"stop", "shutdown"} THEN "stopped"
    ELSE IF action = "suspend" THEN "paused" ELSE "running"

\* instance_action: POST /instances/{node}/{vmid}/action
instance_action(cred, node, vmid, action, up) ==
    LET g == VmGate(cred, node, vmid, up)
    IN IF action \notin VmValidActions
       THEN Refused("instance_action", g, vmid, "400", "read")
       ELSE Mutate("instance_action", g, vmid,
                   IF g.code = "200"
                   THEN {[g.val EXCEPT !.status = VmStatusAfter(action)]}
                   ELSE {})

\* delete_instance: DELETE /instances/{node}/{vmid}; the cluster refuses to
\* delete a VM that is not stopped.
delete_instance(cred, node, vmid, up) ==
    LET g == VmGate(cred, node, vmid, up)
    IN IF g.code = "200" /\ g.val.status # "stopped"
       THEN Refused("delete_instance", g, vmid, "502", "write")
       ELSE Mutate("delete_instance", g, vmid, {})

\* get_container: GET /lxc/{node}/{vmid}
get_container(cred, node, vmid, up) ==
    PassThrough("get_container", CtGate(cred, node, vmid, up), vmid, "read")

\* lxc_action
CtValidActions == {"start", "stop", "shutdown", "reboot"}

CtStatusAfter(action) ==
    IF action \in {"stop", "shutdown"} THEN "stopped" ELSE "running"

\* container_action: POST /lxc/{node}/{vmid}/action
container_action(cred, node, vmid, action, up) ==
    LET g == CtGate(cred, node, vmid, up)
    IN IF action \notin CtValidActions
       THEN Refused("container_action", g, vmid, "400", "read")
       ELSE Mutate("container_action", g, vmid,
                   IF g.code = "200"
                   THEN {[g.val EXCEPT !.status = CtStatusAfter(action)]}
                   ELSE {})

\* resize_container: POST /lxc/{node}/{vmid}/resize; resize_lxc writes the
\* fields of the body that are given and makes no call when none is.
resize_container(cred, node, vmid, body, up) ==
    LET g == CtGate(cred, node, vmid, up)
    IN IF DOMAIN body = {}
       THEN PassThrough("resize_container", g, vmid, "read")
       ELSE Mutate("resize_container", g, vmid,
                   IF g.code = "200"
                   THEN {[g.val EXCEPT
                            !.cpus = IF Given(body, "cores")
                                     THEN body.cores ELSE @,
                            !.maxmem = IF Given(body, "memory_mb")
                                       THEN body.memory_mb ELSE @]}
                   ELSE {})

\* delete_container: DELETE /lxc/{node}/{vmid}
delete_container(cred, node, vmid, up) ==
    LET g == CtGate(cred, node, vmid, up)
    IN IF g.code = "200" /\ g.val.status # "stopped"
       THEN Refused("delete_container", g, vmid, "502", "write")
       ELSE Mutate("delete_container", g, vmid, {})

\* list_ct_snapshots: GET /lxc/{node}/{vmid}/snapshots
list_ct_snapshots(cred, node, vmid, up) ==
    PassThrough("list_ct_snapshots", CtGate(cred, node, vmid, up), vmid,
                "read")

\* create_ct_snapshot: POST /lxc/{node}/{vmid}/snapshots
create_ct_snapshot(cred, node, vmid, up) ==
    PassThrough("create_ct_snapshot", CtGate(cred, node, vmid, up), vmid,
                "write")

\* delete_ct_snapshot: DELETE /lxc/{node}/{vmid}/snapshots/{snapname}
delete_ct_snapshot(cred, node, vmid, up) ==
    PassThrough("delete_ct_snapshot", CtGate(cred, node, vmid, up), vmid,
                "write")

\* list_snapshots: GET /snapshots/{node}/{vmid}
list_snapshots(cred, node, vmid, up) ==
    PassThrough("list_snapshots", get_current_user_vm(cred, node, vmid, up),
                vmid, "read")

\* create_snapshot: POST /snapshots/{node}/{vmid}
create_snapshot(cred, node, vmid, up) ==
    PassThrough("create_snapshot", get_current_user_vm(cred, node, vmid, up),
                vmid, "write")

\* delete_snapshot: DELETE /snapshots/{node}/{vmid}/{snapname}
delete_snapshot(cred, node, vmid, up) ==
    PassThrough("delete_snapshot", get_current_user_vm(cred, node, vmid, up),
                vmid, "write")

\* list_backups: GET /backups/{node}/{vmid}
list_backups(cred, node, vmid, up) ==
    PassThrough("list_backups", get_current_user_vm(cred, node, vmid, up),
                vmid, "read")

\* restore_backup: POST /backups/{node}/{vmid}/restore
restore_backup(cred, node, vmid, up) ==
    PassThrough("restore_backup", get_current_user_vm(cred, node, vmid, up),
                vmid, "write")

\* get_vm_metrics: GET /metrics/vm/{node}/{vmid}
get_vm_metrics(cred, node, vmid, up) ==
    PassThrough("get_vm_metrics", get_current_user_vm(cred, node, vmid, up),
                vmid, "read")

\* get_lxc_metrics: GET /metrics/lxc/{node}/{vmid}
get_lxc_metrics(cred, node, vmid, up) ==
    PassThrough("get_lxc_metrics", get_current_user_lxc(cred, node, vmid, up),
                vmid, "read")

\* get_vm_logs: GET /logs/vm/{node}/{vmid}
get_vm_logs(cred, node, vmid, up) ==
    PassThrough("get_vm_logs", get_current_user_vm(cred, node, vmid, up),
                vmid, "read")

\* get_lxc_logs: GET /logs/lxc/{node}/{vmid}
get_lxc_logs(cred, node, vmid, up) ==
    PassThrough("get_lxc_logs", get_current_user_lxc(cred, node, vmid, up),
                vmid, "read")

\* get_vnc_ticket: GET /shell/ticket/{node}/{vmid}?resource_type=
get_vnc_ticket(cred, node, vmid, resource_type, up) ==
    LET r == IF resource_type = "lxc" THEN get_lxc(node, vmid, up)
             ELSE get_vm(node, vmid, up)
    IN PassThrough("get_vnc_ticket",
                   OwnerGate(cred, r,
                             r.ok /\ ticket_is_owner(r.val, SubOf(cred))),
                   vmid, "write")

(***************************************************************************)
(* Creation with quota enforcement.                                        *)
(***************************************************************************)
\* The seeded machine types (seed.py DEFAULTS) the requests use.
MachineTypes ==
    [name \in {"ucp-standard-1", "ucp-standard-8"} |->
        IF name = "ucp-standard-1" THEN [vcpus |-> 1, memory_mb |-> 2048]
        ELSE [vcpus |-> 8, memory_mb |-> 16384]]

RECURSIVE SumOver(_, _)
SumOver(set, field) ==
    IF set = {} THEN 0
    ELSE LET r == CHOOSE r \in set : TRUE
         IN r[field] + SumOver(set \ {r}, field)

\* (A variant of the comparisons below that tests ram before vcpu.)
QuotaVerdictRamFirst(mine, vcpus, memory_mb, disk_gb, quota) ==
    IF SumOver(mine, "maxmem") + memory_mb > quota.max_ram_gb * MiBPerGiB
    THEN "403_quota_ram"
    ELSE IF SumOver(mine, "cpus") + vcpus > quota.max_vcpus
    THEN "403_quota_vcpu"
    ELSE IF SumOver(mine, "maxdisk") + disk_gb * MiBPerGiB
                > quota.max_disk_gb * MiBPerGiB
    THEN "403_quota_disk"
    ELSE "admit"

\* The three comparisons of the quota check, in the code's order; the
\* first that fails is the violation raised.  used_ram and used_disk are
\* byte sums held in MiB: the code's used/(1024**2) + memory_mb >
\* max_ram_gb*1024 and used/(1024**3) + memory_mb/1024 > max_ram_gb are
\* both used_mib + memory_mb > max_ram_gb * 1024, and used/(1024**3) +
\* size_gb > max_disk_gb is used_mib + size_gb*1024 > max_disk_gb*1024.
QuotaVerdict(mine, vcpus, memory_mb, disk_gb, quota) ==
    IF SumOver(mine, "cpus") + vcpus > quota.max_vcpus
    THEN "403_quota_vcpu"
    ELSE IF SumOver(mine, "maxmem") + memory_mb > quota.max_ram_gb * MiBPerGiB
    THEN "403_quota_ram"
    ELSE IF SumOver(mine, "maxdisk") + disk_gb * MiBPerGiB
                > quota.max_disk_gb * MiBPerGiB
    THEN "403_quota_disk"
    ELSE "admit"

\* my_vms of create_instance: the caller's non-template VMs.
VmPathOwned(uid, up) ==
    {v \in list_vms(up).val : vm_is_owner(v, uid) /\ v.template = 0}

\* my_instances of create_container: the caller's non-template VMs and
\* containers.
CtPathOwned(uid, up) ==
    {v \in list_vms(up).val \cup list_lxc(up).val :
        lxc_is_owner(v, uid) /\ v.template = 0}

\* my_vms of get_my_usage: the caller's non-template VMs, none when the
\* listing raises.
MyUsageOwned(uid, up) ==
    IF list_vms(up).ok
    THEN {v \in list_vms(up).val :
             StrIn(OwnerTag(uid), v.tags) /\ v.template = 0}
    ELSE {}

\* used_vcpus, used_ram, used_disk: the sums over a list of resources.
UsageOf(mine) ==
    [vcpus |-> SumOver(mine, "cpus"), ram |-> SumOver(mine, "maxmem"),
     disk |-> SumOver(mine, "maxdisk")]

\* get_my_usage: GET /auth/me/usage
get_my_usage(cred, up) ==
    LET u == get_current_user(cred)
    IN /\ resp' = IF ~u.ok
                  THEN Reply("get_my_usage", u.uid, u.uid, u.code, "none")
                  ELSE [op |-> "get_my_usage", uid |-> u.uid,
                        target |-> u.uid, code |-> "200", px |-> "read",
                        used |-> UsageOf(MyUsageOwned(u.uid, up))]
       /\ UNCHANGED <<users, quotas, inventory, probe, inflight, networks, audit, tunnel, boots>>

\* (A variant of the enforcement below without the exemption of admins.)
VmQuotaCheckNoExemption(uid, vcpus, memory_mb, disk_gb, up) ==
    IF ~HasQuota(uid) THEN "admit"
    ELSE LET all_vms == list_vms(up)
         IN IF ~all_vms.ok THEN "admit"
            ELSE QuotaVerdict({v \in all_vms.val :
                                  is_owner(v.tags, uid) /\ v.template = 0},
                              vcpus, memory_mb, disk_gb, QuotaOf(uid))

\* Quota enforcement of create_instance: skipped for admins and for a
\* user without quota row; a listing that raises admits; usage is summed
\* over the caller's non-template VMs.
VmQuotaCheck(uid, vcpus, memory_mb, disk_gb, up) ==
    IF ~(HasQuota(uid) /\ users[uid].role # "admin") THEN "admit"
    ELSE LET all_vms == list_vms(up)
         IN IF ~all_vms.ok THEN "admit"
            ELSE QuotaVerdict(VmPathOwned(uid, up), vcpus, memory_mb, disk_gb,
                              QuotaOf(uid))

\* (A variant of the enforcement below that refuses when a listing raises.)
CtQuotaCheckFailClosed(uid, vcpus, memory_mb, disk_gb, up) ==
    IF ~(HasQuota(uid) /\ users[uid].role # "admin") THEN "admit"
    ELSE LET all_vms == list_vms(up)
             all_lxc == list_lxc(up)
         IN IF ~all_vms.ok \/ ~all_lxc.ok THEN "403_quota_vcpu"
            ELSE QuotaVerdict({v \in all_vms.val \cup all_lxc.val :
                                  is_owner(v.tags, uid) /\ v.template = 0},
                              vcpus, memory_mb, disk_gb, QuotaOf(uid))

\* Quota enforcement of create_container: usage is summed over the
\* caller's non-template VMs and containers.
CtQuotaCheck(uid, vcpus, memory_mb, disk_gb, up) ==
    IF ~(HasQuota(uid) /\ users[uid].role # "admin") THEN "admit"
    ELSE LET all_vms == list_vms(up)
             all_lxc == list_lxc(up)
         IN IF ~all_vms.ok \/ ~all_lxc.ok THEN "admit"
            ELSE QuotaVerdict(CtPathOwned(uid, up), vcpus, memory_mb, disk_gb,
                              QuotaOf(uid))

\* The cluster before the control plane is deployed: a VM template and two
\* resources created outside the control plane.
Template100 == Resource("qemu", 100, "pve1", <<>>, 1, 1, 1024, 8 * MiBPerGiB,
                        "stopped")

Legacy101 == Resource("qemu", 101, "pve1", <<>>, 0, 2, 2048, 32 * MiBPerGiB,
                      "running")

Legacy102 == Resource("lxc", 102, "pve2", <<"w", "e", "b">>, 0, 8, 512,
                      8 * MiBPerGiB, "running")

InitialInventory == {Template100, Legacy101, Legacy102}

\* cluster.nextid: the lowest free id from 100 on.
NextVmid ==
    CHOOSE n \in 100..(100 + Cardinality(inventory)) :
        /\ n \notin {r.vmid : r \in inventory}
        /\ \A m \in 100..(n - 1) : m \in {r.vmid : r \in inventory}

\* The cluster holds at most this many resources; a creation beyond it
\* is refused by the cluster.
ClusterCapacity == Cardinality(InitialInventory) + MaxResources

Outcome(ok, inv, px) == [ok |-> ok, inv |-> inv, px |-> px]

\* create_vm: nextid, clone of the template, config write (cores, memory,
\* tags), disk resize (a failure is logged and skipped), start.  `fail`
\* names the call that raises, if any.
create_vm(node, template_vmid, vcpus, memory_mb, disk_gb, start, tags, fail) ==
    LET src == {r \in inventory : r.kind = "qemu" /\ r.node = node
                                    /\ r.vmid = template_vmid}
        cloned == [(CHOOSE r \in src : TRUE) EXCEPT
                      !.vmid = NextVmid, !.template = 0,
                      !.status = "stopped"]
        configured == [cloned EXCEPT !.cpus = vcpus, !.maxmem = memory_mb,
                                     !.tags = tags]
        resized == IF disk_gb > 0 /\ fail # "resize"
                   THEN [configured EXCEPT
                            !.maxdisk = disk_gb * MiBPerGiB]
                   ELSE configured
        started == IF start THEN [resized EXCEPT !.status = "running"]
                   ELSE resized
    IN IF fail = "nextid" THEN Outcome(FALSE, inventory, "read")
       ELSE IF fail = "clone" \/ src = {}
                 \/ Cardinality(inventory) >= ClusterCapacity
       THEN Outcome(FALSE, inventory, "write")
       ELSE IF fail = "config"
       THEN Outcome(FALSE, inventory \cup {cloned}, "write")
       ELSE IF start /\ fail = "start"
       THEN Outcome(FALSE, inventory \cup {resized}, "write")
       ELSE Outcome(TRUE, inventory \cup {started}, "write")

\* create_lxc: nextid, then one creation call carrying every parameter.
create_lxc(node, memory_mb, cores, disk_gb, start, tags, fail) ==
    LET ct == Resource("lxc", NextVmid, node, tags, 0, cores, memory_mb,
                       disk_gb * MiBPerGiB,
                       IF start THEN "running" ELSE "stopped")
    IN IF fail = "nextid" THEN Outcome(FALSE, inventory, "read")
       ELSE IF fail # "none" \/ Cardinality(inventory) >= ClusterCapacity
       THEN Outcome(FALSE, inventory, "write")
       ELSE Outcome(TRUE, inventory \cup {ct}, "write")

\* The reply of a creation handler also names the increment requested and
\* how the inventory listing of the quota check went.
CreateReply(op, uid, target, code, px, req, listing) ==
    [op |-> op, uid |-> uid, target |-> target, code |-> code, px |-> px,
     req |-> req, listing |-> listing]

Listing(uid, up) ==
    IF ~(HasQuota(uid) /\ users[uid].role # "admin") THEN "skipped"
    ELSE IF ~up.api THEN "raised"
    ELSE IF up.down # {} THEN "partial" ELSE "complete"

\* create_instance: POST /instances
create_instance(cred, req, up, fail) ==
    LET u == get_current_user(cred)
        known == req.machine_type \in DOMAIN MachineTypes
        mt == MachineTypes[req.machine_type]
        want == [vcpus |-> mt.vcpus, memory_mb |-> mt.memory_mb,
                 disk_gb |-> req.size_gb]
        verdict == VmQuotaCheck(u.uid, mt.vcpus, mt.memory_mb, req.size_gb, up)
        made == create_vm(req.node, req.template_vmid, mt.vcpus, mt.memory_mb,
                          req.size_gb, req.start,
                          BuildTags(u.uid, req.tags), fail)
    IN /\ IF ~u.ok
          THEN /\ resp' = Reply("create_instance", u.uid, 0, u.code, "none")
               /\ UNCHANGED inventory
          ELSE IF ~known
          THEN /\ resp' = Reply("create_instance", u.uid, 0, "400", "none")
               /\ UNCHANGED inventory
          ELSE IF verdict # "admit"
          THEN /\ resp' = CreateReply("create_instance", u.uid, 0, verdict,
                                      "read", want, Listing(u.uid, up))
               /\ UNCHANGED inventory
          ELSE /\ inventory' = made.inv
               /\ resp' = CreateReply("create_instance", u.uid,
                                      IF made.ok THEN NextVmid ELSE 0,
                                      IF made.ok THEN "201" ELSE "502",
                                      made.px, want, Listing(u.uid, up))
       /\ UNCHANGED <<users, quotas, probe, inflight, networks, audit, tunnel, boots>>

\* create_container: POST /lxc
create_container(cred, req, up, fail) ==
    LET u == get_current_user(cred)
        want == [vcpus |-> req.cores, memory_mb |-> req.memory_mb,
                 disk_gb |-> req.disk_gb]
        verdict == CtQuotaCheck(u.uid, req.cores, req.memory_mb, req.disk_gb,
                                up)
        made == create_lxc(req.node, req.memory_mb, req.cores, req.disk_gb,
                           req.start, BuildTags(u.uid, req.tags), fail)
    IN /\ IF ~u.ok
          THEN /\ resp' = Reply("create_container", u.uid, 0, u.code, "none")
               /\ UNCHANGED inventory
          ELSE IF verdict # "admit"
          THEN /\ resp' = CreateReply("create_container", u.uid, 0, verdict,
                                      "read", want, Listing(u.uid, up))
               /\ UNCHANGED inventory
          ELSE /\ inventory' = made.inv
               /\ resp' = CreateReply("create_container", u.uid,
                                      IF made.ok THEN NextVmid ELSE 0,
                                      IF made.ok THEN "201" ELSE "502",
                                      made.px, want, Listing(u.uid, up))
       /\ UNCHANGED <<users, quotas, probe, inflight, networks, audit, tunnel, boots>>

(***************************************************************************)
(* The console tunnel of shell_websocket: two coroutines relay between the *)
(* browser socket `ws` and the console socket `pve_ws`, and the handler    *)
(* awaits asyncio.gather of both.  What the browser and the console do     *)
(* (send, disconnect) is the environment's choice; the coroutines' and the *)
(* handler's own steps belong to the program.                              *)
(***************************************************************************)
\* The console tunnels, none of them open.
Tunnels == 1..MaxTunnels

Closed == [st |-> "closed"]

NoTunnels == [t \in Tunnels |-> Closed]

Relaying ==
    [st |-> "open", client |-> "up", pve |-> "up",
     browser_to_proxmox |-> "recv", proxmox_to_browser |-> "recv"]

TunnelFrame ==
    UNCHANGED <<users, quotas, inventory, resp, probe, inflight, networks, audit, boots>>

\* shell_websocket up to the start of the relay: the socket is accepted
\* and the console is connected to; a failure closes the socket with 1011.
shell_websocket_connect(t, node, vmid, up) ==
    /\ tunnel[t].st = "closed"
    /\ IF ~up.api \/ node \in up.down
       THEN /\ resp' = Reply("shell_websocket", 0, vmid, "1011", "read")
            /\ UNCHANGED tunnel
       ELSE /\ resp' = Reply("shell_websocket", 0, vmid, "101", "read")
            /\ tunnel' = [tunnel EXCEPT ![t] = Relaying]
    /\ UNCHANGED <<users, quotas, inventory, probe, inflight, networks, audit, boots>>

\* The browser sends a message: browser_to_proxmox receives it and sends
\* it to the console, which raises when the console has gone.
browser_sends(t) ==
    /\ tunnel[t].st = "open" /\ tunnel[t].client = "up"
    /\ tunnel[t].browser_to_proxmox = "recv"
    /\ tunnel' = IF tunnel[t].pve = "up" THEN tunnel
                 ELSE [tunnel EXCEPT ![t].browser_to_proxmox = "raised"]
    /\ TunnelFrame

browser_disconnects(t) ==
    /\ tunnel[t].st = "open" /\ tunnel[t].client = "up"
    /\ tunnel' = [tunnel EXCEPT ![t].client = "gone"]
    /\ TunnelFrame

\* browser_to_proxmox: the iteration over ws ends with WebSocketDisconnect.
browser_to_proxmox_ends(t) ==
    /\ tunnel[t].st = "open" /\ tunnel[t].client = "gone"
    /\ tunnel[t].browser_to_proxmox = "recv"
    /\ tunnel' = [tunnel EXCEPT ![t].browser_to_proxmox = "done"]
    /\ TunnelFrame

\* The console sends a message: proxmox_to_browser receives it and sends
\* it to the browser, which raises when the browser has gone; the
\* exception ends the coroutine.
proxmox_sends(t) ==
    /\ tunnel[t].st = "open" /\ tunnel[t].pve = "up"
    /\ tunnel[t].proxmox_to_browser = "recv"
    /\ tunnel' = IF tunnel[t].client = "up" THEN tunnel
                 ELSE [tunnel EXCEPT ![t].proxmox_to_browser = "done"]
    /\ TunnelFrame

proxmox_disconnects(t) ==
    /\ tunnel[t].st = "open" /\ tunnel[t].pve = "up"
    /\ tunnel' = [tunnel EXCEPT ![t].pve = "gone"]
    /\ TunnelFrame

\* proxmox_to_browser: the iteration over pve_ws ends when it is closed.
proxmox_to_browser_ends(t) ==
    /\ tunnel[t].st = "open" /\ tunnel[t].pve = "gone"
    /\ tunnel[t].proxmox_to_browser = "recv"
    /\ tunnel' = [tunnel EXCEPT ![t].proxmox_to_browser = "done"]
    /\ TunnelFrame

\* asyncio.gather returns once both coroutines have ended; leaving the
\* `async with` closes pve_ws and the handler returns.
gather_returns(t) ==
    /\ tunnel[t].st = "open"
    /\ tunnel[t].browser_to_proxmox = "done"
    /\ tunnel[t].proxmox_to_browser = "done"
    /\ tunnel' = [tunnel EXCEPT ![t] = Closed]
    /\ TunnelFrame

\* asyncio.gather raises as soon as one coroutine has raised; pve_ws is
\* closed and ws is closed with code 1011.
gather_raises(t) ==
    /\ tunnel[t].st = "open"
    /\ tunnel[t].browser_to_proxmox = "raised"
    /\ tunnel' = [tunnel EXCEPT ![t] = Closed]
    /\ TunnelFrame

(***************************************************************************)
(* Networks and the audit log.  Every db.commit() is a transaction of its  *)
(* own; `fail` names the commit that raises, if any: what was committed    *)
(* before it stays committed, the handler ends with a server error.        *)
(***************************************************************************)
Network(id, name, owner_id) == [id |-> id, name |-> name, owner_id |-> owner_id]

AuditLog(user_id, action, resource_id) ==
    [user_id |-> user_id, action |-> action, resource_id |-> resource_id]

\* The bridges the first node reports.
Bridges == {"vmbr0"}

\* (A variant of the write below that keeps only the newest record.)
log_action_overwriting(user_id, action, resource_id) ==
    <<AuditLog(user_id, action, resource_id)>>

\* _log_action: the record is added and committed.
log_action(user_id, action, resource_id) ==
    Append(audit, AuditLog(user_id, action, resource_id))

\* list_audit_logs: GET /audit with the default limit, offset and
\* resource_type; an admin is shown every record, another account its own.
list_audit_logs(cred) ==
    LET u == get_current_user(cred)
        shown == {i \in 1..Len(audit) :
                     users[u.uid].role = "admin" \/ audit[i].user_id = u.uid}
    IN /\ resp' = IF ~u.ok
                  THEN Reply("list_audit_logs", u.uid, 0, u.code, "none")
                  ELSE [op |-> "list_audit_logs", uid |-> u.uid,
                        target |-> 0, code |-> "200", px |-> "none",
                        logs |-> {audit[i] : i \in shown}]
       /\ UNCHANGED <<users, quotas, inventory, probe, inflight, networks, audit, tunnel, boots>>

\* create_network: POST /networks
create_network(cred, name, bridge, up, fail) ==
    LET u == get_current_user(cred)
        id == networks.last_id + 1
    IN /\ networks.last_id < MaxNetworks
       /\ Len(audit) < MaxAudit
       /\ IF ~u.ok
          THEN /\ resp' = Reply("create_network", u.uid, 0, u.code, "none")
               /\ UNCHANGED <<networks, audit>>
          ELSE IF \E n \in networks.rows : n.name = name
          THEN /\ resp' = Reply("create_network", u.uid, 0, "409", "none")
               /\ UNCHANGED <<networks, audit>>
          ELSE IF up.api /\ bridge \notin Bridges
          THEN /\ resp' = Reply("create_network", u.uid, 0, "400", "read")
               /\ UNCHANGED <<networks, audit>>
          ELSE IF fail = "commit"
          THEN /\ resp' = Reply("create_network", u.uid, 0, "500", "read")
               /\ UNCHANGED <<networks, audit>>
          ELSE /\ networks' = [rows |-> networks.rows
                                            \cup {Network(id, name, u.uid)},
                               last_id |-> id]
               /\ IF fail = "audit"
                  THEN /\ resp' = Reply("create_network", u.uid, id, "500",
                                        "read")
                       /\ UNCHANGED audit
                  ELSE /\ resp' = Reply("create_network", u.uid, id, "201",
                                        "read")
                       /\ audit' = log_action(u.uid, "network.create", id)
       /\ UNCHANGED <<users, quotas, inventory, probe, inflight, tunnel, boots>>

\* delete_network: DELETE /networks/{network_id}
delete_network(cred, network_id, fail) ==
    LET u == get_current_user(cred)
        hit == {n \in networks.rows : n.id = network_id}
        network == CHOOSE n \in hit : TRUE
    IN /\ Len(audit) < MaxAudit
       /\ IF ~u.ok
          THEN /\ resp' = Reply("delete_network", u.uid, network_id, u.code,
                                "none")
               /\ UNCHANGED <<networks, audit>>
          ELSE IF hit = {}
          THEN /\ resp' = Reply("delete_network", u.uid, network_id, "404",
                                "none")
               /\ UNCHANGED <<networks, audit>>
          ELSE IF users[u.uid].role # "admin" /\ network.owner_id # u.uid
          THEN /\ resp' = Reply("delete_network", u.uid, network_id, "403",
                                "none")
               /\ UNCHANGED <<networks, audit>>
          ELSE IF fail = "audit"
          THEN /\ resp' = Reply("delete_network", u.uid, network_id, "500",
                                "none")
               /\ UNCHANGED <<networks, audit>>
          ELSE /\ audit' = log_action(u.uid, "network.delete", network_id)
               /\ IF fail = "commit"
                  THEN /\ resp' = Reply("delete_network", u.uid, network_id,
                                        "500", "none")
                       /\ UNCHANGED networks
                  ELSE /\ resp' = Reply("delete_network", u.uid, network_id,
                                        "200", "none")
                       /\ networks' = [networks EXCEPT
                                          !.rows = networks.rows \ hit]
       /\ UNCHANGED <<users, quotas, inventory, probe, inflight, tunnel, boots>>

\* The reply of a listing handler names the requested scope and the
\* addresses of the resources listed.
ListReply(op, uid, scope, listed) ==
    [op |-> op, uid |-> uid, target |-> 0, code |-> "200", px |-> "read",
     scope |-> scope,
     listed |-> {[kind |-> r.kind, vmid |-> r.vmid] : r \in listed}]

\* list_instances: GET /instances?scope=
list_instances(cred, scope, up) ==
    LET u == get_current_user(cred)
        vms == list_vms(up)
        non_templates == {v \in vms.val : v.template = 0}
    IN /\ resp' = IF ~u.ok
                  THEN Reply("list_instances", u.uid, 0, u.code, "none")
                  ELSE IF ~vms.ok
                  THEN Reply("list_instances", u.uid, 0, "502", "read")
                  ELSE IF users[u.uid].role = "admin" /\ scope # "mine"
                  THEN ListReply("list_instances", u.uid, scope,
                                 non_templates)
                  ELSE ListReply("list_instances", u.uid, scope,
                                 {v \in non_templates :
                                     vm_is_owner(v, u.uid)})
       /\ UNCHANGED <<users, quotas, inventory, probe, inflight, networks, audit, tunnel, boots>>

\* list_containers: GET /lxc?scope=
list_containers(cred, scope, up) ==
    LET u == get_current_user(cred)
        cts == list_lxc(up)
    IN /\ resp' = IF ~u.ok
                  THEN Reply("list_containers", u.uid, 0, u.code, "none")
                  ELSE IF ~cts.ok
                  THEN Reply("list_containers", u.uid, 0, "502", "read")
                  ELSE IF users[u.uid].role = "admin" /\ scope # "mine"
                  THEN ListReply("list_containers", u.uid, scope, cts.val)
                  ELSE ListReply("list_containers", u.uid, scope,
                                 {c \in cts.val : lxc_is_owner(c, u.uid)})
       /\ UNCHANGED <<users, quotas, inventory, probe, inflight, networks, audit, tunnel, boots>>

ProbeIdle == [phase |-> "idle"]

\* The workers serving requests, each idle or between the quota check and
\* the creation call of a creation request.
Workers == 1..MaxWorkers

Idle == [pc |-> "idle"]

NoneInFlight == [w \in Workers |-> Idle]

\* The networks table (rows and the last id its sequence gave out) and
\* the audit_logs table, both empty.
NoNetworks == [rows |-> {}, last_id |-> 0]

(***************************************************************************)
(* The creation handlers as served by several workers.  A handler takes no *)
(* lock and shares no state with the other workers: between its quota      *)
(* check (which reads the inventory) and its creation call (which writes   *)
(* it) another worker may run either part of its own request.              *)
(***************************************************************************)
Admitted(op, uid, req, want, listing, seen) ==
    [pc |-> "admitted", op |-> op, uid |-> uid, req |-> req, want |-> want,
     listing |-> listing, seen |-> seen]

\* The reply of a creation served this way also names the usage its quota
\* check computed.
RaceReply(op, uid, target, code, px, want, listing, seen) ==
    [op |-> op, uid |-> uid, target |-> target, code |-> code, px |-> px,
     req |-> want, listing |-> listing, seen |-> seen]

Snapshot(uid, mine, up) ==
    IF Listing(uid, up) \in {"complete", "partial"} THEN UsageOf(mine)
    ELSE UsageOf({})

\* create_container up to the end of its quota enforcement.
create_container_check(w, cred, req, up) ==
    LET u == get_current_user(cred)
        want == [vcpus |-> req.cores, memory_mb |-> req.memory_mb,
                 disk_gb |-> req.disk_gb]
        verdict == CtQuotaCheck(u.uid, req.cores, req.memory_mb, req.disk_gb,
                                up)
        seen == Snapshot(u.uid, CtPathOwned(u.uid, up), up)
    IN /\ inflight[w].pc = "idle"
       /\ IF ~u.ok
          THEN /\ resp' = Reply("create_container", u.uid, 0, u.code, "none")
               /\ UNCHANGED inflight
          ELSE IF verdict # "admit"
          THEN /\ resp' = RaceReply("create_container", u.uid, 0, verdict,
                                    "read", want, Listing(u.uid, up), seen)
               /\ UNCHANGED inflight
          ELSE /\ inflight' = [inflight EXCEPT ![w] =
                                  Admitted("create_container", u.uid, req,
                                           want, Listing(u.uid, up), seen)]
               /\ UNCHANGED resp
       /\ UNCHANGED <<users, quotas, inventory, probe, networks, audit, tunnel, boots>>

\* (A variant of the creation call below that computes the quota verdict
\* again at the time of the call.)
create_container_call_rechecked(w, fail) ==
    LET f == inflight[w]
        verdict == CtQuotaCheck(f.uid, f.req.cores, f.req.memory_mb,
                                f.req.disk_gb, UpOk)
        made == create_lxc(f.req.node, f.req.memory_mb, f.req.cores,
                           f.req.disk_gb, f.req.start,
                           BuildTags(f.uid, f.req.tags), fail)
    IN /\ f.pc = "admitted" /\ f.op = "create_container"
       /\ inflight' = [inflight EXCEPT ![w] = Idle]
       /\ IF verdict # "admit"
          THEN /\ resp' = RaceReply(f.op, f.uid, 0, verdict, "read", f.want,
                                    f.listing, f.seen)
               /\ UNCHANGED inventory
          ELSE /\ inventory' = made.inv
               /\ resp' = RaceReply(f.op, f.uid,
                                    IF made.ok THEN NextVmid ELSE 0,
                                    IF made.ok THEN "201" ELSE "502",
                                    made.px, f.want, f.listing, f.seen)
       /\ UNCHANGED <<users, quotas, probe, networks, audit, tunnel, boots>>

\* create_container from the composition of the tags to its reply.
create_container_call(w, fail) ==
    LET f == inflight[w]
        made == create_lxc(f.req.node, f.req.memory_mb, f.req.cores,
                           f.req.disk_gb, f.req.start,
                           BuildTags(f.uid, f.req.tags), fail)
    IN /\ f.pc = "admitted" /\ f.op = "create_container"
       /\ inflight' = [inflight EXCEPT ![w] = Idle]
       /\ inventory' = made.inv
       /\ resp' = RaceReply(f.op, f.uid, IF made.ok THEN NextVmid ELSE 0,
                            IF made.ok THEN "201" ELSE "502",
                            made.px, f.want, f.listing, f.seen)
       /\ UNCHANGED <<users, quotas, probe, networks, audit, tunnel, boots>>

\* create_instance up to the end of its quota enforcement.
create_instance_check(w, cred, req, up) ==
    LET u == get_current_user(cred)
        known == req.machine_type \in DOMAIN MachineTypes
        mt == MachineTypes[req.machine_type]
        want == [vcpus |-> mt.vcpus, memory_mb |-> mt.memory_mb,
                 disk_gb |-> req.size_gb]
        verdict == VmQuotaCheck(u.uid, mt.vcpus, mt.memory_mb, req.size_gb, up)
        seen == Snapshot(u.uid, VmPathOwned(u.uid, up), up)
    IN /\ inflight[w].pc = "idle"
       /\ IF ~u.ok
          THEN /\ resp' = Reply("create_instance", u.uid, 0, u.code, "none")
               /\ UNCHANGED inflight
          ELSE IF ~known
          THEN /\ resp' = Reply("create_instance", u.uid, 0, "400", "none")
               /\ UNCHANGED inflight
          ELSE IF verdict # "admit"
          THEN /\ resp' = RaceReply("create_instance", u.uid, 0, verdict,
                                    "read", want, Listing(u.uid, up), seen)
               /\ UNCHANGED inflight
          ELSE /\ inflight' = [inflight EXCEPT ![w] =
                                  Admitted("create_instance", u.uid, req,
                                           want, Listing(u.uid, up), seen)]
               /\ UNCHANGED resp
       /\ UNCHANGED <<users, quotas, inventory, probe, networks, audit, tunnel, boots>>

\* create_instance from the composition of the tags to its reply.
create_instance_call(w, fail) ==
    LET f == inflight[w]
        made == create_vm(f.req.node, f.req.template_vmid, f.want.vcpus,
                          f.want.memory_mb, f.want.disk_gb, f.req.start,
                          BuildTags(f.uid, f.req.tags), fail)
    IN /\ f.pc = "admitted" /\ f.op = "create_instance"
       /\ inflight' = [inflight EXCEPT ![w] = Idle]
       /\ inventory' = made.inv
       /\ resp' = RaceReply(f.op, f.uid, IF made.ok THEN NextVmid ELSE 0,
                            IF made.ok THEN "201" ELSE "502",
                            made.px, f.want, f.listing, f.seen)
       /\ UNCHANGED <<users, quotas, probe, networks, audit, tunnel, boots>>

(***************************************************************************)
(* upsert_user as run by concurrent requests.  The coroutine is suspended  *)
(* at each await: between the count of the users table and the commit of   *)
(* the new rows another login may run its own count or its own commit.     *)
(***************************************************************************)
Counted(google_id, count) ==
    [pc |-> "counted", op |-> "google_login", google_id |-> google_id,
     count |-> count]

\* upsert_user up to the count of the users table; the login of a known
\* identity is completed.
upsert_user_count(w, google_id) ==
    /\ inflight[w].pc = "idle"
    /\ IF UserByGoogleId(google_id) # {}
       THEN LET id == CHOOSE u \in UserByGoogleId(google_id) : TRUE
            IN /\ users' = [users EXCEPT ![id] = RepeatLogin(users[id])]
               /\ resp' = Reply("google_login", id, 0, "200", "none")
               /\ UNCHANGED inflight
       ELSE /\ inflight' = [inflight EXCEPT ![w] =
                               Counted(google_id, Len(users))]
            /\ UNCHANGED <<users, resp>>
    /\ UNCHANGED <<quotas, inventory, probe, networks, audit, tunnel, boots>>

\* upsert_user from the choice of role and status to its end: the rows are
\* committed (the commit raises when the identity has been registered in
\* the meantime), then the first user claims the existing resources.
upsert_user_insert(w, up_vm, up_ct, wfail) ==
    LET f == inflight[w]
        is_first == f.count = 0
        id == Len(users) + 1
    IN /\ f.pc = "counted"
       /\ inflight' = [inflight EXCEPT ![w] = Idle]
       /\ IF UserByGoogleId(f.google_id) # {}
          THEN /\ resp' = Reply("google_login", 0, 0, "500", "none")
               /\ UNCHANGED <<users, quotas, inventory, boots>>
          ELSE /\ users' = Append(users, User(f.google_id, FirstRole(f.count),
                                              FirstStatus(f.count)))
               /\ quotas' = Append(quotas,
                                   Quota(id, DEFAULT_MAX_VCPUS,
                                         DEFAULT_MAX_RAM_GB,
                                         DEFAULT_MAX_DISK_GB))
               /\ inventory' =
                      IF is_first
                      THEN claim_existing_resources(inventory, id, up_vm,
                                                    up_ct, wfail)
                      ELSE inventory
               /\ boots' = IF is_first
                           THEN Append(boots,
                                       BootRun(id, inventory, up_vm, up_ct,
                                               wfail))
                           ELSE boots
               /\ resp' = Reply("google_login", id, 0, "200",
                                IF ~is_first THEN "none"
                                ELSE IF ClaimTargets(inventory, up_vm, up_ct)
                                            = {}
                                THEN "read" ELSE "write")
       /\ UNCHANGED <<probe, networks, audit, tunnel>>

(***************************************************************************)
(* Initial state: empty users and quotas tables and the cluster as found.  *)
(***************************************************************************)

(***************************************************************************)
(* The ownership registry on its own: `probe` holds the inputs and the     *)
(* results of one evaluation of the ownership test (phase "owns") or of    *)
(* the tag composition followed by the test (phase "compose").             *)
(***************************************************************************)
ProbeIds == 1..MaxProbeId

Web == <<"w", "e", "b">>

ProbeLabels == {OwnerTag(i) : i \in ProbeIds} \cup {Web}

\* Tag strings of at most MaxProbeLabels labels, as the cluster stores them.
ProbeTagStrings ==
    {StrJoin(l, ";") :
        l \in UNION {[1..n -> ProbeLabels] : n \in 0..MaxProbeLabels}}

\* req.tags as callers send it: absent, plain labels, blanks and empty
\* pieces, and labels that look like an owner marker.
ProbeReqTags ==
    {<<>>, Web, <<" ">> \o Web \o <<",", ",", "d", "b", " ">>}
        \cup {OwnerTag(i) : i \in ProbeIds}
        \cup {Web \o <<",">> \o OwnerTag(i) : i \in ProbeIds}

InitOwn ==
    /\ users = <<>>
    /\ quotas = <<>>
    /\ inventory = InitialInventory
    /\ resp = NoReply
    /\ inflight = NoneInFlight /\ networks = NoNetworks /\ audit = <<>>
    /\ tunnel = NoTunnels /\ boots = <<>>
    /\ \/ probe \in {[phase |-> "owns", done |-> FALSE, tags |-> t,
                       user_id |-> a, owner |-> FALSE] :
                          t \in ProbeTagStrings, a \in ProbeIds}
       \/ /\ probe \in {[phase |-> "compose", done |-> FALSE,
                          req_tags |-> t, tags |-> <<>>, user_id |-> a,
                          other |-> b, owner |-> FALSE,
                          other_owner |-> FALSE] :
                             t \in ProbeReqTags, a \in ProbeIds,
                             b \in ProbeIds}
          /\ probe.other # probe.user_id

\* _is_owner applied to a stored tag string.
ProbeOwns ==
    /\ probe.phase = "owns" /\ ~probe.done
    /\ probe' = [probe EXCEPT !.done = TRUE,
                              !.owner = is_owner(probe.tags, probe.user_id)]
    /\ UNCHANGED <<users, quotas, inventory, resp, inflight, networks, audit, tunnel, boots>>

\* The tags a creation by user_id composes, then _is_owner for the creator
\* and for another account.
ProbeCompose ==
    /\ probe.phase = "compose" /\ ~probe.done
    /\ LET tags == BuildTags(probe.user_id, probe.req_tags)
       IN probe' = [probe EXCEPT !.done = TRUE, !.tags = tags,
                                 !.owner = is_owner(tags, probe.user_id),
                                 !.other_owner = is_owner(tags, probe.other)]
    /\ UNCHANGED <<users, quotas, inventory, resp, inflight, networks, audit, tunnel, boots>>

NextOwn == ProbeOwns \/ ProbeCompose

SpecOwn == InitOwn /\ [][NextOwn]_vars

(***************************************************************************)
(* The quota comparisons on their own: `probe` holds the caller's owned    *)
(* resources, the request, the quota row and the verdict (phase "admit").  *)
(***************************************************************************)
\* Owned resources the comparisons are applied to: one of 6 vCPUs, 8 GiB
\* and 50 GiB, one that is mostly memory and one that is mostly disk.
AdmitPool ==
    {Resource("qemu", 201, "pve1", OwnerTag(2), 0, 6, 8 * MiBPerGiB,
              50 * MiBPerGiB, "running"),
     Resource("lxc", 202, "pve2", OwnerTag(2), 0, 1, 15 * MiBPerGiB,
              8 * MiBPerGiB, "running"),
     Resource("qemu", 203, "pve1", OwnerTag(2), 0, 1, 1 * MiBPerGiB,
              190 * MiBPerGiB, "stopped")}

AdmitRequests ==
    [vcpus : {1, 4}, memory_mb : {2048, 16384}, disk_gb : {8, 32, 200}]

AdmitQuotas ==
    {Quota(2, DEFAULT_MAX_VCPUS, DEFAULT_MAX_RAM_GB, DEFAULT_MAX_DISK_GB),
     Quota(2, 16, 64, 500)}

InitAdmit ==
    /\ users = <<>>
    /\ quotas = <<>>
    /\ inventory = InitialInventory
    /\ resp = NoReply
    /\ inflight = NoneInFlight /\ networks = NoNetworks /\ audit = <<>>
    /\ tunnel = NoTunnels /\ boots = <<>>
    /\ probe \in {[phase |-> "admit", done |-> FALSE, mine |-> m, req |-> r,
                    quota |-> q, verdict |-> "none"] :
                       m \in SUBSET AdmitPool, r \in AdmitRequests,
                       q \in AdmitQuotas}

\* The comparisons applied to one usage, request and quota row.
ProbeAdmit ==
    /\ probe.phase = "admit" /\ ~probe.done
    /\ probe' = [probe EXCEPT
                    !.done = TRUE,
                    !.verdict = QuotaVerdict(probe.mine, probe.req.vcpus,
                                             probe.req.memory_mb,
                                             probe.req.disk_gb, probe.quota)]
    /\ UNCHANGED <<users, quotas, inventory, resp, inflight, networks, audit, tunnel, boots>>

NextAdmit == ProbeAdmit

SpecAdmit == InitAdmit /\ [][NextAdmit]_vars

\* Listings as pure functions of the cluster's contents and condition: the
\* cluster as found plus any of four resources of account 2 on the two
\* nodes, under every condition of the external API.
ListPool ==
    AdmitPool \cup {Resource("qemu", 204, "pve2", OwnerTag(2), 0, 4,
                             4 * MiBPerGiB, 20 * MiBPerGiB, "running")}

InitList ==
    /\ users = <<>>
    /\ quotas = <<>>
    /\ inventory \in {InitialInventory \cup mix : mix \in SUBSET ListPool}
    /\ resp = NoReply
    /\ inflight = NoneInFlight /\ networks = NoNetworks /\ audit = <<>>
    /\ tunnel = NoTunnels /\ boots = <<>>
    /\ probe \in {[phase |-> "list", done |-> FALSE, kind |-> k, up |-> up,
                    result |-> Raised, verdict |-> "none"] :
                       k \in {"qemu", "lxc"}, up \in Upstreams}

\* list_vms or list_lxc applied to the cluster, and the quota comparisons
\* of a one-core request of account 2 over what the listing returned.
ProbeList ==
    /\ probe.phase = "list" /\ ~probe.done
    /\ LET result == IF probe.kind = "qemu" THEN list_vms(probe.up)
                     ELSE list_lxc(probe.up)
           mine == {v \in result.val :
                       is_owner(v.tags, 2) /\ v.template = 0}
       IN probe' = [probe EXCEPT
                       !.done = TRUE,
                       !.result = result,
                       !.verdict =
                           IF ~result.ok THEN "admit"
                           ELSE QuotaVerdict(mine, 1, 512, 8,
                                             Quota(2, DEFAULT_MAX_VCPUS,
                                                   DEFAULT_MAX_RAM_GB,
                                                   DEFAULT_MAX_DISK_GB))]
    /\ UNCHANGED <<users, quotas, inventory, resp, inflight, networks, audit, tunnel, boots>>

NextList == ProbeList

SpecList == InitList /\ [][NextList]_vars

Init ==
    /\ users = <<>>
    /\ quotas = <<>>
    /\ inventory = InitialInventory
    /\ resp = NoReply
    /\ probe = ProbeIdle
    /\ inflight = NoneInFlight /\ networks = NoNetworks /\ audit = <<>>
    /\ tunnel = NoTunnels /\ boots = <<>>

(***************************************************************************)
(* Inputs.                                                                 *)
(***************************************************************************)
\* External identities are opaque and compared for equality only: the
\* identity of a first login is taken to be the next unused one.
GoogleIds == 1..(IF Len(users) < MaxUsers THEN Len(users) + 1 ELSE MaxUsers)

VmIds == {r.vmid : r \in inventory}

\* Target account ids of admin requests, one of them unknown.
TargetIds == 1..(MaxUsers + 1)

RoleInputs == {"admin", "user", "root"}

StatusInputs == {"approved", "rejected", "pending", "banned"}

QuotaBodies == {[max_vcpus |-> 2]}

\* Identity, session and account administration.
NextAccounts ==
    \/ \E verified \in BOOLEAN, g \in GoogleIds :
           google_login(verified, g, UpOk, UpOk, {})
    \/ \E cred \in Creds : get_me(cred)
    \/ \E cred \in Creds, up \in {UpOk, UpDown} : list_nodes(cred, up)
    \/ \E cred \in Creds, up \in {UpOk, UpDown} :
           get_task_log(cred, "pve1", up)
    \/ \E cred \in Creds, up \in {UpOk, UpDown} :
           shell_websocket(cred, "pve1", 100, up)
    \/ \E cred \in Creds, t \in TargetIds, role \in RoleInputs :
           update_user_role(cred, t, role)
    \/ \E cred \in Creds, t \in TargetIds, status \in StatusInputs :
           update_user_status(cred, t, status)

SpecAccounts == Init /\ [][NextAccounts]_vars

(***************************************************************************)
(* Sessions with their tokens.  Every login answers with a token made by   *)
(* create_jwt from the account row as it then is; the tokens issued so far *)
(* are kept in `probe`, none of them expires, and later requests carry any *)
(* of them.                                                                *)
(***************************************************************************)
\* create_jwt: the payload's sub, role and status (email, name and picture
\* are not modelled; exp lies in the future).
create_jwt(user_id, user) ==
    [kind |-> "token", sub |-> user_id, role |-> user.role,
     status |-> user.status]

InitSessions ==
    /\ users = <<>>
    /\ quotas = <<>>
    /\ inventory = InitialInventory
    /\ resp = NoReply
    /\ inflight = NoneInFlight /\ networks = NoNetworks /\ audit = <<>>
    /\ tunnel = NoTunnels /\ boots = <<>>
    /\ probe = [phase |-> "sessions", issued |-> {}]

\* google_login of a verified identity, with the token of its response; the
\* number of tokens followed is bounded, a first login always being among
\* them.
google_login_token(google_id) ==
    /\ \/ google_id > Len(users)
       \/ Cardinality(probe.issued) + (MaxUsers - Len(users)) < MaxTokens
    /\ upsert_user(google_id, UpOk, UpOk, {})
    /\ probe' = [probe EXCEPT
                    !.issued = @ \cup {create_jwt(resp'.uid,
                                                  users'[resp'.uid])}]
    /\ UNCHANGED <<inflight, networks, audit, tunnel>>

NextSessions ==
    \/ \E g \in GoogleIds : google_login_token(g)
    \/ \E cred \in probe.issued : get_me(cred)
    \/ \E cred \in probe.issued : get_task_log(cred, "pve1", UpOk)
    \/ \E cred \in probe.issued, t \in UserIds, role \in Roles :
           update_user_role(cred, t, role)
    \/ \E cred \in probe.issued, t \in UserIds, status \in Statuses :
           update_user_status(cred, t, status)

SpecSessions == InitSessions /\ [][NextSessions]_vars

\* Resources a per-resource request addresses: those of the inventory by
\* their own node and id, and one id on the wrong node.
Addresses ==
    {[node |-> r.node, vmid |-> r.vmid] : r \in inventory}
        \cup {[node |-> "pve2", vmid |-> 100]}

VmRequest(machine_type, size_gb, start, tags) ==
    [node |-> "pve1", machine_type |-> machine_type, template_vmid |-> 100,
     size_gb |-> size_gb, start |-> start, tags |-> tags]

CtRequest(cores, memory_mb, disk_gb, start, tags) ==
    [node |-> "pve2", cores |-> cores, memory_mb |-> memory_mb,
     disk_gb |-> disk_gb, start |-> start, tags |-> tags]

\* The creations of the tenancy scenario: a VM carrying an extra label
\* that looks like the marker of account 20, and a plain container.
TenancyVmRequests == {VmRequest("ucp-standard-1", 0, FALSE, OwnerTag(20))}

TenancyCtRequests == {CtRequest(1, 512, 8, FALSE, <<>>)}

ResizeBodies == {[cores |-> 4]}

\* The callers of the tenancy scenario: anonymous and non-admin accounts.
TenantCreds ==
    {cred \in Creds \ {Invalid} :
        cred.kind = "token" => users[cred.sub].role # "admin"}

\* Logins, approvals, creations, and every per-resource handler called by
\* a tenant.
NextTenancy ==
    \/ \E g \in GoogleIds : google_login(TRUE, g, UpOk, UpOk, {})
    \/ \E cred \in Creds, t \in UserIds :
           update_user_status(cred, t, "approved")
    \/ \E cred \in Creds, req \in TenancyVmRequests :
           create_instance(cred, req, UpOk, "none")
    \/ \E cred \in TenantCreds, req \in TenancyCtRequests :
           create_container(cred, req, UpOk, "none")
    \/ \E cred \in TenantCreds, a \in Addresses :
           \/ get_instance(cred, a.node, a.vmid, UpOk)
           \/ \E action \in {"start", "poweroff"} :
                  instance_action(cred, a.node, a.vmid, action, UpOk)
           \/ delete_instance(cred, a.node, a.vmid, UpOk)
           \/ get_container(cred, a.node, a.vmid, UpOk)
           \/ \E action \in {"stop", "poweroff"} :
                  container_action(cred, a.node, a.vmid, action, UpOk)
           \/ \E body \in ResizeBodies :
                  resize_container(cred, a.node, a.vmid, body, UpOk)
           \/ delete_container(cred, a.node, a.vmid, UpOk)
           \/ list_ct_snapshots(cred, a.node, a.vmid, UpOk)
           \/ create_ct_snapshot(cred, a.node, a.vmid, UpOk)
           \/ delete_ct_snapshot(cred, a.node, a.vmid, UpOk)
           \/ list_snapshots(cred, a.node, a.vmid, UpOk)
           \/ create_snapshot(cred, a.node, a.vmid, UpOk)
           \/ delete_snapshot(cred, a.node, a.vmid, UpOk)
           \/ list_backups(cred, a.node, a.vmid, UpOk)
           \/ restore_backup(cred, a.node, a.vmid, UpOk)
           \/ get_vm_metrics(cred, a.node, a.vmid, UpOk)
           \/ get_lxc_metrics(cred, a.node, a.vmid, UpOk)
           \/ get_vm_logs(cred, a.node, a.vmid, UpOk)
           \/ get_lxc_logs(cred, a.node, a.vmid, UpOk)
           \/ \E resource_type \in {"qemu", "lxc"} :
                  get_vnc_ticket(cred, a.node, a.vmid, resource_type, UpOk)

SpecTenancy == Init /\ [][NextTenancy]_vars

\* Creations of the quota scenario: the smallest and the largest machine
\* type and an unknown one; a container of one core and one of eight.
QuotaVmRequests ==
    {VmRequest(mt, 32, TRUE, <<>>) :
        mt \in {"ucp-standard-1", "ucp-standard-8", "ucp-mega"}}

QuotaCtRequests ==
    {CtRequest(1, 512, 8, TRUE, <<>>), CtRequest(8, 512, 8, TRUE, <<>>)}

\* The call of a creation that raises, if any.
CreateVmFailures == {"none", "config"}

CreateCtFailures == {"none", "create"}

\* Logins, approvals, quota updates, creations, and usage reads.
NextQuota ==
    \/ \E g \in GoogleIds : google_login(TRUE, g, UpOk, UpOk, {})
    \/ \E cred \in Creds, t \in UserIds :
           update_user_status(cred, t, "approved")
    \/ \E cred \in Creds, t \in UserIds, body \in QuotaBodies :
           update_user_quota(cred, t, body)
    \/ \E cred \in Creds, req \in QuotaVmRequests,
          up \in {UpOk, UpDown}, fail \in CreateVmFailures :
           create_instance(cred, req, up, fail)
    \/ \E cred \in Creds, req \in QuotaCtRequests,
          up \in {UpOk, UpDown}, fail \in CreateCtFailures :
           create_container(cred, req, up, fail)
    \/ \E cred \in Creds, up \in {UpOk, UpDown} : get_my_usage(cred, up)

SpecQuota == Init /\ [][NextQuota]_vars

\* Creations of the concurrent scenario: a container and a VM of eight
\* cores each, the whole default budget of an account.
RaceCtRequests == {CtRequest(8, 512, 8, TRUE, <<>>)}

RaceVmRequests == {VmRequest("ucp-standard-8", 32, TRUE, <<>>)}

\* Logins, approvals, and creations served by the workers, each creation
\* in two steps.
NextRace ==
    \/ \E g \in GoogleIds : google_login(TRUE, g, UpOk, UpOk, {})
    \/ \E cred \in Creds, t \in UserIds :
           update_user_status(cred, t, "approved")
    \/ \E w \in Workers, cred \in Creds, req \in RaceCtRequests :
           create_container_check(w, cred, req, UpOk)
    \/ \E w \in Workers, fail \in CreateCtFailures :
           create_container_call(w, fail)
    \/ \E w \in Workers, cred \in Creds, req \in RaceVmRequests :
           create_instance_check(w, cred, req, UpOk)
    \/ \E w \in Workers, fail \in CreateVmFailures :
           create_instance_call(w, fail)

SpecRace == Init /\ [][NextRace]_vars

\* A container converted to a template outside the control plane.
Template104 == Resource("lxc", 104, "pve2", <<>>, 1, 1, 512, 8 * MiBPerGiB,
                        "stopped")

\* The listing scenario starts from the cluster as found, with or without
\* a container template.
InitListing ==
    /\ users = <<>>
    /\ quotas = <<>>
    /\ inventory \in {InitialInventory, InitialInventory \cup {Template104}}
    /\ resp = NoReply
    /\ probe = ProbeIdle
    /\ inflight = NoneInFlight /\ networks = NoNetworks /\ audit = <<>>
    /\ tunnel = NoTunnels /\ boots = <<>>

\* The scope parameter: absent, "mine", "all".
Scopes == {"", "mine", "all"}

\* Logins, approvals, creations, and listings of both kinds.
NextListing ==
    \/ \E g \in GoogleIds : google_login(TRUE, g, UpOk, UpOk, {})
    \/ \E cred \in Creds, t \in UserIds :
           update_user_status(cred, t, "approved")
    \/ \E cred \in Creds, req \in TenancyVmRequests :
           create_instance(cred, req, UpOk, "none")
    \/ \E cred \in Creds, req \in TenancyCtRequests :
           create_container(cred, req, UpOk, "none")
    \/ \E cred \in Creds, scope \in Scopes, up \in {UpOk, UpDown} :
           list_instances(cred, scope, up)
    \/ \E cred \in Creds, scope \in Scopes, up \in {UpOk, UpDown} :
           list_containers(cred, scope, up)

SpecListing == InitListing /\ [][NextListing]_vars

\* Resources a cluster may hold before the first login: two carrying the
\* marker of an account of an earlier deployment, and one whose only
\* label merely contains the marker text.
Owned105 == Resource("qemu", 105, "pve1", OwnerTag(7), 0, 2, 2048,
                     32 * MiBPerGiB, "running")

Owned106 == Resource("lxc", 106, "pve2", Web \o <<";">> \o OwnerTag(7), 0, 1,
                     512, 8 * MiBPerGiB, "running")

Labelled107 == Resource("qemu", 107, "pve1", <<"x">> \o OwnerTag(7), 0, 1,
                        1024, 8 * MiBPerGiB, "stopped")

BootPool == {Legacy101, Legacy102, Owned105, Owned106, Labelled107}

\* The bootstrap scenario starts from any mix of these next to the VM
\* template.
InitBootstrap ==
    /\ users = <<>>
    /\ quotas = <<>>
    /\ inventory \in {{Template100} \cup mix : mix \in SUBSET BootPool}
    /\ resp = NoReply
    /\ probe = ProbeIdle
    /\ inflight = NoneInFlight /\ networks = NoNetworks /\ audit = <<>>
    /\ tunnel = NoTunnels /\ boots = <<>>

\* Logins with every listing and every write succeeding, profile reads,
\* and approvals.
NextBootstrap ==
    \/ \E g \in GoogleIds : google_login(TRUE, g, UpOk, UpOk, {})
    \/ \E cred \in Creds : get_me(cred)
    \/ \E cred \in Creds, t \in UserIds :
           update_user_status(cred, t, "approved")

SpecBootstrap == InitBootstrap /\ [][NextBootstrap]_vars

\* The conditions of the cluster during a first login: reachable or not,
\* one node failing its queries or none, and the writes that raise.
BootUpstreams == {UpOk, UpDown, [api |-> TRUE, down |-> {"pve2"}]}

BootWriteFailures == SUBSET {101, 102}

\* Logins under these conditions, profile reads, and approvals.
NextBootFaults ==
    \/ \E g \in GoogleIds, up_vm \in BootUpstreams, up_ct \in BootUpstreams,
          wfail \in BootWriteFailures :
           google_login(TRUE, g, up_vm, up_ct, wfail)
    \/ \E cred \in Creds : get_me(cred)
    \/ \E cred \in Creds, t \in UserIds :
           update_user_status(cred, t, "approved")

SpecBootFaults == InitBootstrap /\ [][NextBootFaults]_vars

\* The identities that log in.
LoginIdentities == 1..MaxUsers

\* Logins served by the workers, each registration in two steps, profile
\* reads, and approvals.
NextLoginRace ==
    \/ \E w \in Workers, g \in LoginIdentities : upsert_user_count(w, g)
    \/ \E w \in Workers, wfail \in BootWriteFailures :
           upsert_user_insert(w, UpOk, UpOk, wfail)
    \/ \E cred \in Creds : get_me(cred)
    \/ \E cred \in Creds, t \in UserIds :
           update_user_status(cred, t, "approved")

SpecLoginRace == Init /\ [][NextLoginRace]_vars

\* The inputs of the network scenario.
NetworkNames == {"lan", "dmz"}

BridgeInputs == {"vmbr0", "vmbr9"}

NetworkIds == 1..MaxNetworks

CommitFailures == {"none", "commit", "audit"}

\* Logins, approvals, and creations and deletions of networks.
NextAudit ==
    \/ \E g \in GoogleIds : google_login(TRUE, g, UpOk, UpOk, {})
    \/ \E cred \in Creds, t \in UserIds :
           update_user_status(cred, t, "approved")
    \/ \E cred \in Creds, name \in NetworkNames, bridge \in BridgeInputs,
          up \in {UpOk, UpDown}, fail \in CommitFailures :
           create_network(cred, name, bridge, up, fail)
    \/ \E cred \in Creds, id \in NetworkIds, fail \in CommitFailures :
           delete_network(cred, id, fail)
    \/ \E cred \in Creds : list_audit_logs(cred)

SpecAudit == Init /\ [][NextAudit]_vars

\* Logins, the administration of accounts, creations, actions and
\* deletions of VMs, and creations of networks.
NextPrivileged ==
    \/ \E g \in GoogleIds : google_login(TRUE, g, UpOk, UpOk, {})
    \/ \E cred \in Creds, t \in UserIds, role \in {"admin", "user"} :
           update_user_role(cred, t, role)
    \/ \E cred \in Creds, t \in UserIds :
           update_user_status(cred, t, "approved")
    \/ \E cred \in Creds, t \in UserIds, body \in QuotaBodies :
           update_user_quota(cred, t, body)
    \/ \E cred \in Creds, req \in TenancyVmRequests :
           create_instance(cred, req, UpOk, "none")
    \/ \E cred \in Creds, a \in Addresses :
           \/ instance_action(cred, a.node, a.vmid, "poweroff", UpOk)
           \/ delete_instance(cred, a.node, a.vmid, UpOk)
    \/ \E cred \in Creds :
           create_network(cred, "lan", "vmbr0", UpOk, "none")

SpecPrivileged == Init /\ [][NextPrivileged]_vars

\* The program's own steps of tunnel t.
TunnelProgress(t) ==
    \/ browser_to_proxmox_ends(t)
    \/ proxmox_to_browser_ends(t)
    \/ gather_returns(t)
    \/ gather_raises(t)

\* Openings of tunnels, what the two parties do, and the program's steps.
NextTunnel ==
    \/ \E t \in Tunnels, up \in {UpOk, UpDown} :
           shell_websocket_connect(t, "pve1", 101, up)
    \/ \E t \in Tunnels : browser_sends(t)
    \/ \E t \in Tunnels : browser_disconnects(t)
    \/ \E t \in Tunnels : proxmox_sends(t)
    \/ \E t \in Tunnels : proxmox_disconnects(t)
    \/ \E t \in Tunnels : TunnelProgress(t)

\* The event loop runs every coroutine that can make a step.
SpecTunnel ==
    /\ Init /\ [][NextTunnel]_vars
    /\ \A t \in Tunnels : WF_vars(TunnelProgress(t))

\* Every handler.
Next == NextOwn \/ NextAdmit \/ NextList \/ NextAccounts \/ NextSessions \/ NextTenancy \/ NextQuota \/ NextRace \/ NextListing
            \/ NextBootstrap \/ NextBootFaults \/ NextLoginRace \/ NextAudit
            \/ NextPrivileged
            \/ NextTunnel

Spec == Init /\ [][Next]_vars

(***************************************************************************)
(* Properties.                                                             *)
(***************************************************************************)
\* The step is a login that created an account.
Registered == Len(users') = Len(users) + 1

\* Account u exists before and after the step and its status differs.
StatusChanged(u) ==
    u \in UserIds /\ u \in 1..Len(users') /\ users'[u].status # users[u].status

\* The per-resource handlers.
PerResourceOps ==
    {"get_instance", "instance_action", "delete_instance", "get_container",
     "container_action", "resize_container", "delete_container",
     "list_ct_snapshots", "create_ct_snapshot", "delete_ct_snapshot",
     "list_snapshots", "create_snapshot", "delete_snapshot", "list_backups",
     "restore_backup", "get_vm_metrics", "get_lxc_metrics", "get_vm_logs",
     "get_lxc_logs", "get_vnc_ticket"}

\* The step is a per-resource request of a non-admin account whose session
\* was accepted and whose target r was fetched, and the label set of r does
\* not hold the account's marker as a discrete label.
ForeignRequest(r) ==
    /\ resp'.op \in PerResourceOps
    /\ resp'.uid \in UserIds
    /\ users[resp'.uid].role # "admin"
    /\ resp'.gate \in {"200", "403_not_owner"}
    /\ r.vmid = resp'.target
    /\ ~HasMarker(r.tags, resp'.uid)

\* C1: every per-resource operation of a non-admin account on a resource
\* whose label set lacks the account's marker as a discrete label is
\* refused as not-owner and leaves the resource unchanged.
C1_Step ==
    \A r \in inventory :
        ForeignRequest(r) =>
            /\ resp'.code = "403_not_owner"
            /\ r \in inventory'

C1_TenantIsolation == [][C1_Step]_vars

\* C2: the ownership test of the code is true exactly when the account's
\* marker is a discrete element of the label set.
C2_OwnsIffDiscreteMarker ==
    (probe.phase = "owns" /\ probe.done) =>
        (probe.owner <=> HasMarker(probe.tags, probe.user_id))

\* C3: the tags composed for a creation by account a pass the ownership
\* test for a and fail it for every other account b.
C3_ComposeRoundTrip ==
    (probe.phase = "compose" /\ probe.done) =>
        (probe.owner /\ ~probe.other_owner)

\* C4: the login that fills the empty users table leaves exactly one
\* account, it is admin and approved, and exactly one quota row is its own.
C4_Step ==
    (users = <<>> /\ users' # <<>>) =>
        /\ Len(users') = 1
        /\ users'[1].role = "admin" /\ users'[1].status = "approved"
        /\ Len(quotas') = 1 /\ quotas'[1].user_id = 1
        /\ resp'.op = "google_login" /\ resp'.code = "200" /\ resp'.uid = 1

C4_BootstrapAdmin == [][C4_Step]_vars

C4_Witness ==
    /\ Len(users) = 1 /\ Len(quotas) = 1
    /\ resp.op = "google_login" /\ resp.code = "200" /\ resp.uid = 1
    /\ users[1].role = "admin" /\ users[1].status = "approved"

\* C5: an account created while the users table is not empty starts as
\* role user, status pending, whatever requests came before.
C5_Step ==
    (users # <<>> /\ Registered) =>
        /\ users'[Len(users')].role = "user"
        /\ users'[Len(users')].status = "pending"

C5_LaterAccountsPending == [][C5_Step]_vars

\* The state right after the login that created a later account.
C5_Witness ==
    /\ Len(users) >= 2
    /\ resp.op = "google_login" /\ resp.code = "200"
    /\ resp.uid = Len(users)
    /\ users[Len(users)].role = "user"
    /\ users[Len(users)].status = "pending"

\* C6: a request other than the self-status read (and the login itself)
\* that carries the valid token of a rejected or pending account is refused
\* with 403 rejected / 403 pending and makes no call to the external API
\* and no change.
C6_Step ==
    \A u \in UserIds :
        (resp'.uid = u /\ resp'.op \notin {"google_login", "get_me"}
            /\ users[u].status \in {"rejected", "pending"}) =>
            /\ resp'.code = IF users[u].status = "rejected"
                            THEN "403_rejected" ELSE "403_pending"
            /\ resp'.px = "none"
            /\ UNCHANGED <<users, quotas, inventory>>

C6_BlockedEverywhere == [][C6_Step]_vars

\* C7: the self-status read answers 200 to every valid token, whatever the
\* account's status.
C7_SelfStatusAlwaysReadable ==
    (resp.op = "get_me" /\ resp.uid # 0) => resp.code = "200"

\* C8 as stated: every status change is pending->approved,
\* pending->rejected, approved->rejected or rejected->approved.
C8_SpecTransitions ==
    {<<"pending", "approved">>, <<"pending", "rejected">>,
     <<"approved", "rejected">>, <<"rejected", "approved">>}

C8_OriginalStep ==
    \A u \in UserIds :
        StatusChanged(u) =>
            <<users[u].status, users'[u].status>> \in C8_SpecTransitions

C8_AmendedStep ==
    /\ \A u \in 1..Len(users') : users'[u].status \in Statuses
    /\ \A u \in UserIds :
           StatusChanged(u) =>
               /\ resp'.op = "update_user_status" /\ resp'.code = "200"
               /\ resp'.target = u
               /\ <<users[u].status, users'[u].status>> \in
                      C8_SpecTransitions \cup
                          {<<"approved", "pending">>, <<"rejected", "pending">>}

C9_Step ==
    \A u \in UserIds :
        StatusChanged(u) =>
            /\ resp'.op = "update_user_status" /\ resp'.code = "200"
            /\ resp'.target = u
            /\ resp'.uid \in UserIds
            /\ users[resp'.uid].role = "admin"
            /\ users[resp'.uid].status = "approved"
            /\ resp'.uid # u

C9_NeverSelfTransitioned == [][C9_Step]_vars

\* The usage of an account: the sums over the non-template resources of
\* both kinds that carry its marker as a discrete label.
OwnedBy(uid) ==
    {r \in inventory : HasMarker(r.tags, uid) /\ r.template = 0}

\* The step is a creation request of a non-admin account that has a quota
\* row, the inventory was listed in full, and usage plus request exceeds
\* the quota in some dimension.
OverQuotaRequest ==
    /\ resp'.op \in {"create_instance", "create_container"}
    /\ "req" \in DOMAIN resp'
    /\ resp'.listing = "complete"
    /\ resp'.uid \in UserIds
    /\ users[resp'.uid].role # "admin"
    /\ HasQuota(resp'.uid)
    /\ LET mine == OwnedBy(resp'.uid)
           quota == QuotaOf(resp'.uid)
       IN \/ SumOver(mine, "cpus") + resp'.req.vcpus > quota.max_vcpus
          \/ SumOver(mine, "maxmem") + resp'.req.memory_mb
                 > quota.max_ram_gb * MiBPerGiB
          \/ SumOver(mine, "maxdisk") + resp'.req.disk_gb * MiBPerGiB
                 > quota.max_disk_gb * MiBPerGiB

\* C10: a creation request of a non-admin account whose usage plus request
\* exceeds the quota ends with a quota violation, no creation call is made
\* and the inventory is unchanged.
C10_Step ==
    OverQuotaRequest =>
        /\ resp'.code \in {"403_quota_vcpu", "403_quota_ram", "403_quota_disk"}
        /\ resp'.px # "write"
        /\ inventory' = inventory

C10_QuotaBeforeAllocation == [][C10_Step]_vars

\* The dimensions in which the usage and request held by `probe` exceed
\* its quota row.
ProbeOverVcpu ==
    SumOver(probe.mine, "cpus") + probe.req.vcpus > probe.quota.max_vcpus

ProbeOverRam ==
    SumOver(probe.mine, "maxmem") + probe.req.memory_mb
        > probe.quota.max_ram_gb * MiBPerGiB

ProbeOverDisk ==
    SumOver(probe.mine, "maxdisk") + probe.req.disk_gb * MiBPerGiB
        > probe.quota.max_disk_gb * MiBPerGiB

\* C11: the quota check reports one violation, the first violated
\* dimension in the order vcpu, ram, disk: vcpu whenever vcpu is exceeded,
\* ram only if vcpu passes, disk only if vcpu and ram pass, and it admits
\* exactly when no dimension is exceeded.
C11_FirstViolatedDimension ==
    (probe.phase = "admit" /\ probe.done) =>
        /\ ProbeOverVcpu => probe.verdict = "403_quota_vcpu"
        /\ probe.verdict = "403_quota_ram" <=> (~ProbeOverVcpu /\ ProbeOverRam)
        /\ probe.verdict = "403_quota_disk" <=>
               (~ProbeOverVcpu /\ ~ProbeOverRam /\ ProbeOverDisk)
        /\ probe.verdict = "admit" <=>
               (~ProbeOverVcpu /\ ~ProbeOverRam /\ ~ProbeOverDisk)

\* Usage 6, request 4, limit 8, with ram and disk exceeded as well: the
\* verdict names vcpu.
C11_Witness ==
    /\ probe.phase = "admit" /\ probe.done
    /\ SumOver(probe.mine, "cpus") = 6 /\ probe.req.vcpus = 4
    /\ probe.quota.max_vcpus = 8
    /\ ProbeOverRam /\ ProbeOverDisk
    /\ probe.verdict = "403_quota_vcpu"

\* The step is a creation request that passed the session check (and, for a
\* VM, the machine type lookup).
CreationRequest ==
    /\ resp'.op \in {"create_instance", "create_container"}
    /\ "req" \in DOMAIN resp'
    /\ resp'.uid \in UserIds

QuotaCodes == {"403_quota_vcpu", "403_quota_ram", "403_quota_disk"}

\* C12: a creation request of an admin is never refused by the quota
\* check, whatever the usage, the request and the limits: the inventory is
\* not even listed and the creation call is made.
C12_Step ==
    (CreationRequest /\ users[resp'.uid].role = "admin") =>
        /\ resp'.code \notin QuotaCodes
        /\ resp'.listing = "skipped"
        /\ resp'.px = "write"

C12_AdminAlwaysAdmitted == [][C12_Step]_vars

\* An admin whose usage was above the vCPU limit before the request has
\* just created a resource.
C12_Witness ==
    /\ resp.op \in {"create_instance", "create_container"}
    /\ resp.code = "201"
    /\ resp.uid \in UserIds
    /\ users[resp.uid].role = "admin"
    /\ SumOver(OwnedBy(resp.uid), "cpus") - resp.req.vcpus
           > QuotaOf(resp.uid).max_vcpus

\* C13: when the listing made by the quota check raises, the request is
\* admitted and the creation call is made: the answer is neither a quota
\* violation nor an error without a creation call.
C13_Step ==
    (CreationRequest /\ resp'.listing = "raised") =>
        /\ resp'.code \in {"201", "502"}
        /\ resp'.px = "write"

C13_QuotaFailOpen == [][C13_Step]_vars

\* A non-admin account has just created a resource although the listing of
\* its quota check raised.
C13_Witness ==
    /\ resp.op \in {"create_instance", "create_container"}
    /\ resp.code = "201"
    /\ resp.uid \in UserIds
    /\ users[resp.uid].role # "admin"
    /\ resp.listing = "raised"

\* C14: for every account the quota check applies to, and the inventory
\* listed in full, the usage computed by the VM-creation path, by the
\* container-creation path and by the usage read is the same: the sums
\* over the account's non-template resources of both kinds.
C14_SameUsageBothKinds ==
    \A u \in UserIds :
        (HasQuota(u) /\ users[u].role # "admin") =>
            /\ UsageOf(CtPathOwned(u, UpOk)) = UsageOf(OwnedBy(u))
            /\ UsageOf(VmPathOwned(u, UpOk)) = UsageOf(OwnedBy(u))
            /\ UsageOf(MyUsageOwned(u, UpOk)) = UsageOf(OwnedBy(u))


\* C15: the quota check and the creation call are not atomic.  A request
\* is admitted only when the usage its check computed plus the request is
\* within the account's limits, and once admitted its creation call is
\* never refused for quota, whatever the account's usage has become: two
\* requests of one account admitted against the same usage both succeed
\* and leave the account above its quota.
C15_Step ==
    /\ \A w \in Workers :
           (inflight[w].pc = "idle" /\ inflight'[w].pc = "admitted"
                /\ inflight'[w].listing = "complete")
               => LET f == inflight'[w]
                      q == QuotaOf(f.uid)
                  IN /\ f.seen.vcpus + f.want.vcpus <= q.max_vcpus
                     /\ f.seen.ram + f.want.memory_mb
                            <= q.max_ram_gb * MiBPerGiB
                     /\ f.seen.disk + f.want.disk_gb * MiBPerGiB
                            <= q.max_disk_gb * MiBPerGiB
    /\ \A w \in Workers :
           (inflight[w].pc = "admitted" /\ inflight'[w].pc = "idle")
               => /\ resp'.code \in {"201", "502"}
                  /\ resp'.seen = inflight[w].seen

C15_RaceAdmitsBoth == [][C15_Step]_vars

\* A non-admin account above its vCPU limit just after a container
\* creation whose own check, over the VMs and containers of the account,
\* found usage plus request within the limit.
C15_Witness ==
    /\ "seen" \in DOMAIN resp
    /\ resp.op = "create_container" /\ resp.code = "201"
    /\ resp.listing = "complete"
    /\ users[resp.uid].role # "admin"
    /\ resp.seen.vcpus + resp.req.vcpus <= QuotaOf(resp.uid).max_vcpus
    /\ UsageOf(CtPathOwned(resp.uid, UpOk)).vcpus
           > QuotaOf(resp.uid).max_vcpus


\* C16: every account has exactly one quota row and every quota row
\* belongs to an account; the row of a new account is committed together
\* with the account and carries the default limits 8 / 16 / 200.
C16_Step ==
    Len(users') > Len(users)
        => /\ Len(users') = Len(users) + 1
           /\ Len(quotas') = Len(quotas) + 1
           /\ quotas'[Len(quotas')] =
                  [user_id |-> Len(users'), max_vcpus |-> 8,
                   max_ram_gb |-> 16, max_disk_gb |-> 200]

C16_OneQuotaPerAccount ==
    /\ [](/\ \A u \in UserIds : Cardinality(QuotaRows(u)) = 1
          /\ \A i \in 1..Len(quotas) : quotas[i].user_id \in UserIds)
    /\ [][C16_Step]_vars

\* The second account has just been registered.
C16_Witness ==
    /\ Len(users) = 2
    /\ resp.op = "google_login" /\ resp.code = "200" /\ resp.uid = 2
    /\ HasQuota(1) /\ HasQuota(2)


\* C17: a successful listing of VMs or of containers returns, for an admin
\* whose scope is not "mine", exactly the non-template resources of that
\* kind, and otherwise exactly the non-template resources of that kind the
\* ownership test attributes to the caller; a template is never listed.
ListedKind == IF resp.op = "list_instances" THEN "qemu" ELSE "lxc"

ScopedExpectation ==
    LET of_kind == {r \in inventory :
                       r.kind = ListedKind /\ r.template = 0}
        visible == IF users[resp.uid].role = "admin" /\ resp.scope # "mine"
                   THEN of_kind
                   ELSE {r \in of_kind : is_owner(r.tags, resp.uid)}
    IN {[kind |-> r.kind, vmid |-> r.vmid] : r \in visible}

C17_ScopedListing ==
    ("listed" \in DOMAIN resp /\ resp.code = "200")
        => resp.listed = ScopedExpectation


\* C18: when the first account registers and every write succeeds, each
\* resource of either kind none of whose labels is an owner marker has
\* afterwards its previous labels plus exactly the marker of that account,
\* and each resource one of whose labels is an owner marker keeps its
\* label string.
IsMarker(label) == \E id \in ProbeIds : label = OwnerTag(id)

Unowned(r) == \A label \in Labels(r.tags) : ~IsMarker(label)

After(r) == CHOOSE n \in inventory' : n.kind = r.kind /\ n.vmid = r.vmid

C18_Step ==
    (Len(users) = 0 /\ Len(users') = 1)
        => \A r \in inventory :
               IF Unowned(r)
               THEN Labels(After(r).tags)
                        = Labels(r.tags) \cup {OwnerTag(1)}
               ELSE After(r).tags = r.tags

C18_BootstrapClaimsUnowned == [][C18_Step]_vars

\* The same for the resources that are not templates.
C18_NonTemplateStep ==
    (Len(users) = 0 /\ Len(users') = 1)
        => \A r \in {x \in inventory : x.template = 0} :
               IF Unowned(r)
               THEN Labels(After(r).tags)
                        = Labels(r.tags) \cup {OwnerTag(1)}
               ELSE After(r).tags = r.tags

C18_NonTemplate == [][C18_NonTemplateStep]_vars


\* C19: an audit record and the mutation it documents are committed
\* together: every step that adds or removes a network appends exactly the
\* record of that mutation, and every step that appends a record adds or
\* removes the network it names.
Logged == SubSeq(audit', Len(audit) + 1, Len(audit'))

C19_Step ==
    LET created == networks'.rows \ networks.rows
        deleted == networks.rows \ networks'.rows
    IN /\ Len(audit') >= Len(audit)
       /\ Len(Logged) = Cardinality(created) + Cardinality(deleted)
       /\ \A n \in created :
              Logged = <<AuditLog(n.owner_id, "network.create", n.id)>>
       /\ \A n \in deleted :
              /\ Len(Logged) = 1
              /\ Logged[1].action = "network.delete"
              /\ Logged[1].resource_id = n.id

C19_AuditCoupled == [][C19_Step]_vars


\* C20: every successful privileged mutation (an update of the role, the
\* status or the quota of an account by an admin; a creation, an action on
\* or a deletion of a resource) appends one audit record naming the
\* account that made it.
PrivilegedOps ==
    {"update_user_role", "update_user_status", "update_user_quota",
     "create_instance", "instance_action", "delete_instance",
     "create_container", "container_action", "delete_container"}

C20_Step ==
    (resp'.op \in PrivilegedOps /\ resp'.code \in {"200", "201"})
        => /\ Len(audit') = Len(audit) + 1
           /\ audit'[Len(audit')].user_id = resp'.uid

C20_PrivilegedMutationAudited == [][C20_Step]_vars


\* C21: the audit log is append-only: every step leaves the records
\* written so far in place and unchanged, also the step that deletes the
\* network a record refers to.
C21_Step ==
    /\ Len(audit') >= Len(audit)
    /\ SubSeq(audit', 1, Len(audit)) = audit

C21_AuditAppendOnly == [][C21_Step]_vars

\* A network has just been deleted and the record of its creation is
\* still in the log.
C21_Witness ==
    /\ resp.op = "delete_network" /\ resp.code = "200"
    /\ \A n \in networks.rows : n.id # resp.target
    /\ \E i \in 1..Len(audit) :
           /\ audit[i].action = "network.create"
           /\ audit[i].resource_id = resp.target


\* C22: once the browser or the console of an open tunnel has
\* disconnected, the tunnel eventually closes.
PartyGone(t) ==
    /\ tunnel[t].st = "open"
    /\ tunnel[t].client = "gone" \/ tunnel[t].pve = "gone"

C22_TunnelCloses ==
    \A t \in Tunnels : PartyGone(t) ~> (tunnel[t].st = "closed")


\* C23: the role, the status and the quota row of an existing account
\* change only by a successful update_user_role, update_user_status or
\* update_user_quota of an admin aimed at that account; a login of a known
\* identity leaves the users and quotas tables as they are.
ByAdminUpdate(op, u) ==
    /\ resp'.op = op /\ resp'.code = "200" /\ resp'.target = u
    /\ resp'.uid \in UserIds /\ users[resp'.uid].role = "admin"

C23_Step ==
    /\ \A u \in UserIds :
           /\ Len(users') >= Len(users)
           /\ users'[u].role # users[u].role
                  => ByAdminUpdate("update_user_role", u)
           /\ users'[u].status # users[u].status
                  => ByAdminUpdate("update_user_status", u)
           /\ users'[u].google_id = users[u].google_id
    /\ \A i \in 1..Len(quotas) :
           /\ Len(quotas') >= Len(quotas)
           /\ quotas'[i] # quotas[i]
                  => ByAdminUpdate("update_user_quota", quotas[i].user_id)
    /\ (resp'.op = "google_login" /\ resp'.uid \in UserIds)
           => users' = users /\ quotas' = quotas

C23_AccountFrame == [][C23_Step]_vars

\* The first account has just logged in again, after the second was
\* registered and the first one's quota was changed.
C23_Witness ==
    /\ Len(users) = 2
    /\ resp.op = "google_login" /\ resp.code = "200" /\ resp.uid = 1
    /\ QuotaOf(1).max_vcpus # DEFAULT_MAX_VCPUS


\* C24: the bootstrapper is best-effort per resource.  Whatever listing
\* or write fails during the first login, the login succeeds and creates
\* the approved admin, and every resource the scan claims when nothing
\* fails is claimed all the same, unless its own write failed, its node
\* was skipped by the listing of its kind, or the listing of its kind
\* raised; every other resource keeps its labels.
Spared(r, run) ==
    \A w \in run.warned :
        /\ w.what = "claim" => w.vmid # r.vmid
        /\ w.what = "node" => ~(w.kind = r.kind /\ w.node = r.node)
        /\ w.what = "list" => w.kind # r.kind

C24_Step ==
    (Len(users) = 0 /\ Len(users') = 1)
        => /\ resp'.op = "google_login" /\ resp'.code = "200"
           /\ users'[1].role = "admin" /\ users'[1].status = "approved"
           /\ Len(boots') = 1
           /\ \A r \in inventory :
                  After(r).tags =
                      IF r \in ClaimTargets(inventory, UpOk, UpOk)
                             /\ Spared(r, boots'[1])
                      THEN AppendTag(r.tags, OwnerTag(1))
                      ELSE r.tags

C25_Step ==
    boots' # boots
        => /\ boots = <<>> /\ Len(boots') = 1
           /\ Len(users) = 0 /\ Len(users') = 1
           /\ boots'[1].user_id = 1
           /\ users'[1].role = "admin"

C25_BootstrapRunsOnce == [][C25_Step]_vars

\* C27: however the first logins of distinct identities interleave, at
\* most one account is created with the role admin and the bootstrapper
\* is triggered at most once.
C27_OneBootstrapAdmin ==
    /\ Cardinality({u \in UserIds : users[u].role = "admin"}) <= 1
    /\ Len(boots) <= 1


\* C26: a listing of one kind does not fail because a node failed its
\* query: whenever the cluster endpoint answers, the listing returns
\* exactly the resources of that kind on the nodes that answered, each
\* naming its node, and none of a node that failed; the quota comparisons
\* over it are made on a usage that is at most the true one.
C26_ListingBestEffort ==
    (probe.phase = "list" /\ probe.done /\ probe.up.api)
        => /\ probe.result.ok
           /\ probe.result.val =
                  {r \in inventory : r.kind = probe.kind
                                       /\ r.node \in Nodes \ probe.up.down}
           /\ LET seen == {v \in probe.result.val :
                              is_owner(v.tags, 2) /\ v.template = 0}
                  true == {v \in inventory :
                              v.kind = probe.kind /\ is_owner(v.tags, 2)
                                  /\ v.template = 0}
              IN /\ SumOver(seen, "cpus") <= SumOver(true, "cpus")
                 /\ probe.verdict
                        = QuotaVerdict(seen, 1, 512, 8,
                                       Quota(2, DEFAULT_MAX_VCPUS,
                                             DEFAULT_MAX_RAM_GB,
                                             DEFAULT_MAX_DISK_GB))

\* A listing of VMs with node pve2 failing: VM 204 on it is omitted, the
\* VMs of pve1 are returned, and the request is admitted on a usage that
\* leaves 204 out although the true usage forbids it.
C26_Witness ==
    /\ probe.phase = "list" /\ probe.done /\ probe.kind = "qemu"
    /\ probe.up.api /\ probe.up.down = {"pve2"}
    /\ \E r \in inventory : r.vmid = 204
    /\ \A r \in probe.result.val : r.vmid # 204
    /\ \E r \in probe.result.val : r.vmid = 201
    /\ probe.verdict = "admit"
    /\ SumOver({v \in inventory : v.kind = "qemu" /\ is_owner(v.tags, 2)},
               "cpus") + 1 > DEFAULT_MAX_VCPUS


\* Account u holds a token whose status claim is approved (with role claim
\* admin: AdminToken) while the stored row says otherwise: the row was
\* changed after the token was issued.
Revoked(u) ==
    /\ users[u].status \in {"rejected", "pending"}
    /\ \E t \in probe.issued : t.sub = u /\ t.status = "approved"

Demoted(u) ==
    /\ users[u].status = "approved" /\ users[u].role = "user"
    /\ \E t \in probe.issued :
           t.sub = u /\ t.role = "admin" /\ t.status = "approved"

\* C28: once an account's stored status is rejected or pending, every
\* request carrying a token issued to it while it was approved is refused
\* with 403; once an admin's stored role is user, every admin-only request
\* carrying a token issued while it was admin is refused with 403.
C28_Step ==
    \A u \in UserIds :
        (resp'.uid = u /\ resp'.op # "google_login") =>
            /\ Revoked(u) =>
                   resp'.code = IF users[u].status = "rejected"
                                THEN "403_rejected" ELSE "403_pending"
            /\ (Demoted(u) /\ resp'.op \in {"update_user_role",
                                             "update_user_status"}) =>
                   resp'.code = "403_admin"

C28_RevocationImmediate == [][C28_Step]_vars

\* The same over the requests whose route resolves a session.
C28_ResolvedStep ==
    \A u \in UserIds :
        (resp'.uid = u
            /\ resp'.op \notin {"google_login", "get_task_log",
                                "shell_websocket"}) =>
            /\ Revoked(u) =>
                   /\ resp'.code = IF users[u].status = "rejected"
                                   THEN "403_rejected" ELSE "403_pending"
                   /\ UNCHANGED users
            /\ (Demoted(u) /\ resp'.op \in {"update_user_role",
                                             "update_user_status"}) =>
                   /\ resp'.code = "403_admin"
                   /\ UNCHANGED users

C28_Resolved == [][C28_ResolvedStep]_vars

\* A request refused on the stored row although its token says approved
\* admin: the account is rejected, or demoted and asking for an admin-only
\* operation.
C28_ResolvedSeen ==
    \E u \in UserIds :
        /\ resp.uid = u
        /\ \/ Revoked(u) /\ resp.code = "403_rejected" /\ resp.op = "get_me"
           \/ Demoted(u) /\ resp.code = "403_admin"


\* C29: every VM that a create_instance request adds to the inventory
\* carries the owner marker of the account that made the request, also
\* when a call to the cluster raises after the clone.
C29_Step ==
    resp'.op = "create_instance" =>
        \A r \in inventory' \ inventory :
            r.kind = "qemu" /\ HasMarker(r.tags, resp'.uid)

C29_CreatedCarriesMarker == [][C29_Step]_vars

\* The creations that end without error do carry it.
C29_CompletedStep ==
    (resp'.op = "create_instance" /\ resp'.code = "201") =>
        /\ inventory' # inventory
        /\ \A r \in inventory' \ inventory :
               /\ r.vmid = resp'.target
               /\ HasMarker(r.tags, resp'.uid)
               /\ is_owner(r.tags, resp'.uid)

C29_Completed == [][C29_CompletedStep]_vars

C29_CompletedSeen ==
    /\ resp.op = "create_instance" /\ resp.code = "201"
    /\ \E r \in inventory : r.vmid = resp.target /\ HasMarker(r.tags, resp.uid)


\* C30: once the first account exists, some account has role admin and
\* status approved in every state, whatever role and status updates are
\* made.
C30_ApprovedAdminRemains ==
    Len(users) > 0 =>
        \E u \in UserIds :
            users[u].role = "admin" /\ users[u].status = "approved"

====
